---------------------------- MODULE Spec2Model ----------------------------
(***************************************************************************)
(* Model of the core of the Emily card checker: the outcome taxonomy       *)
(* (models/response.rs), the rule-cascade classifiers                      *)
(* (services/response_parser.rs), card parsing (models/card.rs), the       *)
(* validators (utils/validators.rs), the gateway registry                  *)
(* (gateways/traits.rs), client-token parsing and the Stripe-id helpers    *)
(* (services/token_manager.rs) and the field scraper                       *)
(* (services/field_scraper.rs).  Texts are TLC strings, handled character  *)
(* by character: to_lowercase, contains, find, trim, split, the JSON       *)
(* reader, the markup reader and base64 are computed, not assumed.         *)
(* Spec is a probe's classification and notification; CardSpec,            *)
(* ValidatorSpec, RegistrySpec, TokenSpec, StripeIdSpec and ScraperSpec    *)
(* apply the utilities; ProbeSpec interleaves concurrent probes over a     *)
(* shared registry; BuilderSpec applies the setters of a response.         *)
(***************************************************************************)
EXTENDS Integers, Sequences, FiniteSets, TLC

VARIABLES pc, op, text, payload, response, notified,
          input, result, registry, calls

vars == <<pc, op, text, payload, response, notified, input, result, registry, calls>>

\* What a probe's classification works on, and what the utilities
\* (card parsing, validators, token parsing, the gateway registry) work on
probe == <<payload, response, notified>>
utilities == <<input, result, registry, calls>>

(***************************************************************************)
(* str primitives used by the classifiers.                                 *)
(***************************************************************************)
CharAt(s, i) == SubSeq(s, i, i)

\* char::to_lowercase on the ASCII letters; every other character is kept.
LowerChar(c) ==
    CASE c = "A" -> "a" [] c = "B" -> "b" [] c = "C" -> "c" [] c = "D" -> "d"
      [] c = "E" -> "e" [] c = "F" -> "f" [] c = "G" -> "g" [] c = "H" -> "h"
      [] c = "I" -> "i" [] c = "J" -> "j" [] c = "K" -> "k" [] c = "L" -> "l"
      [] c = "M" -> "m" [] c = "N" -> "n" [] c = "O" -> "o" [] c = "P" -> "p"
      [] c = "Q" -> "q" [] c = "R" -> "r" [] c = "S" -> "s" [] c = "T" -> "t"
      [] c = "U" -> "u" [] c = "V" -> "v" [] c = "W" -> "w" [] c = "X" -> "x"
      [] c = "Y" -> "y" [] c = "Z" -> "z" [] OTHER -> c

RECURSIVE LowerRange(_, _, _)
LowerRange(s, lo, hi) ==
    IF lo > hi THEN ""
    ELSE IF lo = hi THEN LowerChar(CharAt(s, lo))
    ELSE LET mid == (lo + hi) \div 2
         IN  LowerRange(s, lo, mid) \o LowerRange(s, mid + 1, hi)

\* str::to_lowercase
to_lowercase(s) == LowerRange(s, 1, Len(s))

\* p occurs in s at index i (1-based)
MatchAt(s, p, i) == i + Len(p) - 1 <= Len(s) /\ SubSeq(s, i, i + Len(p) - 1) = p

\* str::contains
contains(s, p) == \E i \in 1..(Len(s) - Len(p) + 1) : MatchAt(s, p, i)

\* str::find from index `from` on: the 1-based index of the first
\* occurrence at or after `from`, 0 for None.
Least(S) == CHOOSE x \in S : \A y \in S : x <= y

FindFrom(s, p, from) ==
    LET hits == {i \in from..(Len(s) - Len(p) + 1) : MatchAt(s, p, i)}
    IN  IF hits = {} THEN 0 ELSE Least(hits)

find(s, p) == FindFrom(s, p, 1)

IsSpace(c) == c \in {" ", "\t", "\n", "\r"}

\* str::trim: from the first to the last character that is not white space
trim(s) ==
    LET solid == {i \in 1..Len(s) : ~IsSpace(CharAt(s, i))}
    IN  IF solid = {} THEN ""
        ELSE SubSeq(s, Least(solid), CHOOSE x \in solid : \A y \in solid : y <= x)

(***************************************************************************)
(* serde_json::from_str::<Value>: a reader for JSON text.  A Value is a    *)
(* record [t, s, b, members]: t the kind, s the text of a string or        *)
(* number, b the value of a bool, members the <<key, value>> pairs of an   *)
(* object (the elements of an array, keyed "").                            *)
(***************************************************************************)
JNull         == [t |-> "null", s |-> "", b |-> FALSE, members |-> <<>>]
JBool(x)      == [t |-> "bool", s |-> "", b |-> x, members |-> <<>>]
JNumber(x)    == [t |-> "number", s |-> x, b |-> FALSE, members |-> <<>>]
JString(x)    == [t |-> "string", s |-> x, b |-> FALSE, members |-> <<>>]
JArray(xs)    == [t |-> "array", s |-> "", b |-> FALSE, members |-> xs]
JObject(kvs)  == [t |-> "object", s |-> "", b |-> FALSE, members |-> kvs]

JErr          == [ok |-> FALSE, v |-> JNull, next |-> 0]
JOk(val, nxt) == [ok |-> TRUE, v |-> val, next |-> nxt]

IsJsonWs(c) == c \in {" ", "\t", "\n", "\r"}
IsDigit(c) == c \in {"0", "1", "2", "3", "4", "5", "6", "7", "8", "9"}

\* The first index from i on that holds no white space (Len(s) + 1 when
\* there is none).
SkipWs(s, i) == Least({j \in i..Len(s) : ~IsJsonWs(CharAt(s, j))} \cup {Len(s) + 1})

\* The body of a string literal from index i (just after the opening
\* quote): the decoded text and the index after the closing quote.
RECURSIVE JStringBody(_, _, _)
JStringBody(s, i, acc) ==
    LET marks == {j \in i..Len(s) : CharAt(s, j) \in {"\"", "\\", "\t", "\n", "\r"}} IN
    IF marks = {} THEN JErr
    ELSE LET j    == Least(marks)
             c    == CharAt(s, j)
             acc2 == acc \o SubSeq(s, i, j - 1)
         IN  IF c = "\"" THEN JOk(JString(acc2), j + 1)
             ELSE IF c = "\\" THEN
                  IF j + 1 > Len(s) THEN JErr
                  ELSE LET e == CharAt(s, j + 1) IN
                       IF e = "\"" THEN JStringBody(s, j + 2, acc2 \o "\"")
                       ELSE IF e = "\\" THEN JStringBody(s, j + 2, acc2 \o "\\")
                       ELSE IF e = "/" THEN JStringBody(s, j + 2, acc2 \o "/")
                       ELSE IF e = "n" THEN JStringBody(s, j + 2, acc2 \o "\n")
                       ELSE IF e = "t" THEN JStringBody(s, j + 2, acc2 \o "\t")
                       ELSE IF e = "r" THEN JStringBody(s, j + 2, acc2 \o "\r")
                       ELSE JErr
             ELSE JErr

JDigits(s, i) == Least({j \in i..Len(s) : ~IsDigit(CharAt(s, j))} \cup {Len(s) + 1})

JNumberAt(s, i) ==
    LET start == IF CharAt(s, i) = "-" THEN i + 1 ELSE i
        stop  == JDigits(s, start)
    IN  IF stop = start THEN JErr
        ELSE IF stop - start > 1 /\ CharAt(s, start) = "0" THEN JErr
        ELSE JOk(JNumber(SubSeq(s, i, stop - 1)), stop)

RECURSIVE JValue(_, _), JMembers(_, _, _), JElements(_, _, _)
JValue(s, i0) ==
    LET i == SkipWs(s, i0) IN
    IF i > Len(s) THEN JErr
    ELSE LET c == CharAt(s, i) IN
         IF c = "\"" THEN JStringBody(s, i + 1, "")
         ELSE IF c = "{" THEN
              LET j == SkipWs(s, i + 1) IN
              IF j <= Len(s) /\ CharAt(s, j) = "}" THEN JOk(JObject(<<>>), j + 1)
              ELSE JMembers(s, j, <<>>)
         ELSE IF c = "[" THEN
              LET j == SkipWs(s, i + 1) IN
              IF j <= Len(s) /\ CharAt(s, j) = "]" THEN JOk(JArray(<<>>), j + 1)
              ELSE JElements(s, j, <<>>)
         ELSE IF MatchAt(s, "true", i) THEN JOk(JBool(TRUE), i + 4)
         ELSE IF MatchAt(s, "false", i) THEN JOk(JBool(FALSE), i + 5)
         ELSE IF MatchAt(s, "null", i) THEN JOk(JNull, i + 4)
         ELSE IF c = "-" \/ IsDigit(c) THEN JNumberAt(s, i)
         ELSE JErr

\* "key" : value ( , "key" : value )* }
JMembers(s, i0, acc) ==
    LET i == SkipWs(s, i0) IN
    IF i > Len(s) \/ CharAt(s, i) # "\"" THEN JErr
    ELSE LET k == JStringBody(s, i + 1, "") IN
         IF ~k.ok THEN JErr
         ELSE LET c == SkipWs(s, k.next) IN
              IF c > Len(s) \/ CharAt(s, c) # ":" THEN JErr
              ELSE LET val == JValue(s, c + 1) IN
                   IF ~val.ok THEN JErr
                   ELSE LET n    == SkipWs(s, val.next)
                            acc2 == Append(acc, <<k.v.s, val.v>>)
                        IN  IF n > Len(s) THEN JErr
                            ELSE IF CharAt(s, n) = "}" THEN JOk(JObject(acc2), n + 1)
                            ELSE IF CharAt(s, n) = "," THEN JMembers(s, n + 1, acc2)
                            ELSE JErr

\* value ( , value )* ]
JElements(s, i0, acc) ==
    LET val == JValue(s, i0) IN
    IF ~val.ok THEN JErr
    ELSE LET n    == SkipWs(s, val.next)
             acc2 == Append(acc, <<"", val.v>>)
         IN  IF n > Len(s) THEN JErr
             ELSE IF CharAt(s, n) = "]" THEN JOk(JArray(acc2), n + 1)
             ELSE IF CharAt(s, n) = "," THEN JElements(s, n + 1, acc2)
             ELSE JErr

\* serde_json::from_str: one value, then nothing but whitespace.
from_str(s) ==
    LET r == JValue(s, 1) IN
    IF r.ok /\ SkipWs(s, r.next) > Len(s) THEN [ok |-> TRUE, v |-> r.v]
    ELSE [ok |-> FALSE, v |-> JNull]

\* Value::get(key): Some(member) of an object that has the key (the last
\* one when the key is repeated), None otherwise.  <<>> stands for None.
RECURSIVE LastMember(_, _, _)
LastMember(kvs, key, i) ==
    IF i = 0 THEN <<>>
    ELSE IF kvs[i][1] = key THEN <<kvs[i][2]>>
    ELSE LastMember(kvs, key, i - 1)

get(json, key) ==
    IF json.t = "object" THEN LastMember(json.members, key, Len(json.members)) ELSE <<>>

\* Value's Index<&str>: the member, or Null when there is none.
index(json, key) == LET g == get(json, key) IN IF g = <<>> THEN JNull ELSE g[1]

\* Value::as_str / Value::as_bool: <<x>> for Some(x), <<>> for None.
as_str(v) == IF v.t = "string" THEN <<v.s>> ELSE <<>>
as_bool(v) == IF v.t = "bool" THEN <<v.b>> ELSE <<>>

\* Option::unwrap_or
unwrap_or(o, d) == IF o = <<>> THEN d ELSE o[1]

(***************************************************************************)
(* models/response.rs: the outcome taxonomy and the response record.       *)
(* Option<String> is <<>> for None and <<s>> for Some(s).                  *)
(***************************************************************************)
PaymentStatus ==
    {"Charged", "CcnLive", "ThreeDsRequired", "InsufficientFunds",
     "Declined", "Error", "Unknown"}

\* should_notify with Declined counted among the hits
should_notify_with_declined(status) ==
    status \in {"Charged", "CcnLive", "ThreeDsRequired", "InsufficientFunds", "Declined"}

\* PaymentStatus::should_notify
should_notify(status) ==
    status \in {"Charged", "CcnLive", "ThreeDsRequired", "InsufficientFunds"}

\* PaymentResponse::new
new(status, message) ==
    [status |-> status, message |-> message, redirect_url |-> <<>>,
     raw_response |-> <<>>, execution_time |-> 0]

charged(message)    == new("Charged", message)
ccn_live(message)   == new("CcnLive", message)
three_ds            == new("ThreeDsRequired", "3D Secure authentication required")
insufficient_funds  == new("InsufficientFunds", "Insufficient funds")
declined(message)   == new("Declined", message)
error(message)      == new("Error", message)
unknown(message)    == new("Unknown", message)

(***************************************************************************)
(* services/response_parser.rs: the classifiers.                           *)
(***************************************************************************)
\* categorize_stripe_error with the insufficient-funds rule tried first
categorize_stripe_error_funds_first(message, code, decline_code) ==
    LET msg_lower == to_lowercase(message) IN
    IF \/ contains(msg_lower, "insufficient funds")
       \/ decline_code = "insufficient_funds"
       \/ contains(msg_lower, "insufficient_funds")
    THEN insufficient_funds
    ELSE IF \/ contains(msg_lower, "security code is incorrect")
            \/ contains(msg_lower, "incorrect_cvc")
            \/ code = "incorrect_cvc"
    THEN ccn_live("Your card's security code is incorrect.")
    ELSE IF contains(msg_lower, "postal code") \/ contains(msg_lower, "zip code")
    THEN ccn_live("Your postal code is incorrect.")
    ELSE IF \/ contains(msg_lower, "authentication")
            \/ contains(msg_lower, "3d secure")
            \/ contains(msg_lower, "requires_action")
            \/ code = "payment_intent_authentication_failure"
    THEN three_ds
    ELSE IF contains(msg_lower, "expired") \/ code = "expired_card"
    THEN declined("Your card has expired.")
    ELSE IF \/ contains(msg_lower, "declined")
            \/ contains(msg_lower, "card was declined")
            \/ code = "card_declined"
    THEN declined("Card declined: " \o message)
    ELSE error(message)

\* categorize_stripe_error whose default is the status Unknown
categorize_stripe_error_default_unknown(message, code, decline_code) ==
    LET msg_lower == to_lowercase(message) IN
    IF \/ contains(msg_lower, "security code is incorrect")
       \/ contains(msg_lower, "incorrect_cvc")
       \/ code = "incorrect_cvc"
    THEN ccn_live("Your card's security code is incorrect.")
    ELSE IF contains(msg_lower, "postal code") \/ contains(msg_lower, "zip code")
    THEN ccn_live("Your postal code is incorrect.")
    ELSE IF \/ contains(msg_lower, "insufficient funds")
            \/ decline_code = "insufficient_funds"
            \/ contains(msg_lower, "insufficient_funds")
    THEN insufficient_funds
    ELSE IF \/ contains(msg_lower, "authentication")
            \/ contains(msg_lower, "3d secure")
            \/ contains(msg_lower, "requires_action")
            \/ code = "payment_intent_authentication_failure"
    THEN three_ds
    ELSE IF contains(msg_lower, "expired") \/ code = "expired_card"
    THEN declined("Your card has expired.")
    ELSE IF \/ contains(msg_lower, "declined")
            \/ contains(msg_lower, "card was declined")
            \/ code = "card_declined"
    THEN declined("Card declined: " \o message)
    ELSE unknown(message)

\* ResponseParser::categorize_stripe_error
categorize_stripe_error(message, code, decline_code) ==
    LET msg_lower == to_lowercase(message) IN
    IF \/ contains(msg_lower, "security code is incorrect")
       \/ contains(msg_lower, "incorrect_cvc")
       \/ code = "incorrect_cvc"
    THEN ccn_live("Your card's security code is incorrect.")
    ELSE IF contains(msg_lower, "postal code") \/ contains(msg_lower, "zip code")
    THEN ccn_live("Your postal code is incorrect.")
    ELSE IF \/ contains(msg_lower, "insufficient funds")
            \/ decline_code = "insufficient_funds"
            \/ contains(msg_lower, "insufficient_funds")
    THEN insufficient_funds
    ELSE IF \/ contains(msg_lower, "authentication")
            \/ contains(msg_lower, "3d secure")
            \/ contains(msg_lower, "requires_action")
            \/ code = "payment_intent_authentication_failure"
    THEN three_ds
    ELSE IF contains(msg_lower, "expired") \/ code = "expired_card"
    THEN declined("Your card has expired.")
    ELSE IF \/ contains(msg_lower, "declined")
            \/ contains(msg_lower, "card was declined")
            \/ code = "card_declined"
    THEN declined("Card declined: " \o message)
    ELSE error(message)

\* parse_stripe_error reading message and codes off the top level of an
\* object that has no error member
parse_stripe_error_top_level(response_text) ==
    LET json == from_str(response_text) IN
    IF json.ok
    THEN LET err          == IF get(json.v, "error") # <<>>
                             THEN get(json.v, "error")[1] ELSE json.v
             message      == unwrap_or(as_str(index(err, "message")), "Unknown error")
             code         == to_lowercase(unwrap_or(as_str(index(err, "code")), ""))
             decline_code == to_lowercase(unwrap_or(as_str(index(err, "decline_code")), ""))
         IN  categorize_stripe_error(message, code, decline_code)
    ELSE error("Failed to parse Stripe error response")

\* parse_stripe_error lower-casing the message as it does the codes
parse_stripe_error_lowercased_message(response_text) ==
    LET json == from_str(response_text) IN
    IF json.ok /\ get(json.v, "error") # <<>>
    THEN LET err          == get(json.v, "error")[1]
             message      == to_lowercase(
                                 unwrap_or(as_str(index(err, "message")), "Unknown error"))
             code         == to_lowercase(unwrap_or(as_str(index(err, "code")), ""))
             decline_code == to_lowercase(unwrap_or(as_str(index(err, "decline_code")), ""))
         IN  categorize_stripe_error(message, code, decline_code)
    ELSE error("Failed to parse Stripe error response")

\* ResponseParser::parse_stripe_error
parse_stripe_error(response_text) ==
    LET json == from_str(response_text) IN
    IF json.ok /\ get(json.v, "error") # <<>>
    THEN LET err          == get(json.v, "error")[1]
             message      == unwrap_or(as_str(index(err, "message")), "Unknown error")
             code         == to_lowercase(unwrap_or(as_str(index(err, "code")), ""))
             decline_code == to_lowercase(unwrap_or(as_str(index(err, "decline_code")), ""))
         IN  categorize_stripe_error(message, code, decline_code)
    ELSE error("Failed to parse Stripe error response")

\* parse_woocommerce_message with the decline rules tried before the rest
parse_woocommerce_message_declined_first(message) ==
    LET msg_lower == to_lowercase(message) IN
    IF contains(msg_lower, "expired")
    THEN declined("Card has expired")
    ELSE IF contains(msg_lower, "declined")
    THEN declined(message)
    ELSE IF contains(msg_lower, "security code is incorrect")
    THEN ccn_live("Security code is incorrect")
    ELSE IF contains(msg_lower, "insufficient funds")
    THEN insufficient_funds
    ELSE error(message)

\* ResponseParser::parse_woocommerce_message
parse_woocommerce_message(message) ==
    LET msg_lower == to_lowercase(message) IN
    IF contains(msg_lower, "security code is incorrect")
    THEN ccn_live("Security code is incorrect")
    ELSE IF contains(msg_lower, "insufficient funds")
    THEN insufficient_funds
    ELSE IF contains(msg_lower, "expired")
    THEN declined("Card has expired")
    ELSE IF contains(msg_lower, "declined")
    THEN declined(message)
    ELSE error(message)

(***************************************************************************)
(* scraper::Html::parse_document and Selector, for the markup the          *)
(* payloads use: text, <name class="a b">, </name>.  The document is the   *)
(* token list; an element is the index of its opening tag, and document    *)
(* order is the order of the opening tags.                                 *)
(***************************************************************************)
TagName(inner) ==
    LET sp == find(inner, " ") IN
    IF sp = 0 THEN inner ELSE SubSeq(inner, 1, sp - 1)

TagClass(inner) ==
    LET a == find(inner, "class=\"") IN
    IF a = 0 THEN ""
    ELSE LET from == a + 7
             q    == FindFrom(inner, "\"", from)
         IN  IF q = 0 THEN "" ELSE SubSeq(inner, from, q - 1)

RECURSIVE Tokens(_, _, _)
Tokens(s, i, acc) ==
    IF i > Len(s) THEN acc
    ELSE IF CharAt(s, i) = "<" /\ FindFrom(s, ">", i + 1) # 0
    THEN LET gt    == FindFrom(s, ">", i + 1)
             inner == SubSeq(s, i + 1, gt - 1)
         IN  IF Len(inner) > 0 /\ CharAt(inner, 1) = "/"
             THEN Tokens(s, gt + 1,
                      Append(acc, [k |-> "close", name |-> SubSeq(inner, 2, Len(inner)),
                                   class |-> "", s |-> "", attrs |-> ""]))
             ELSE Tokens(s, gt + 1,
                      Append(acc, [k |-> "open", name |-> TagName(inner),
                                   class |-> TagClass(inner), s |-> "",
                                   attrs |-> inner]))
    ELSE LET lt   == FindFrom(s, "<", i + 1)
             stop == IF lt = 0 THEN Len(s) + 1 ELSE lt
         IN  Tokens(s, stop,
                 Append(acc, [k |-> "text", name |-> "", class |-> "",
                              s |-> SubSeq(s, i, stop - 1), attrs |-> ""]))

\* Html::parse_document
parse_document(html) == Tokens(html, 1, <<>>)

\* The elements the tree builder gives no content: their opening tag is
\* the whole element.
VoidElements == {"input", "meta", "br", "hr", "img", "link"}

\* The index of the closing tag of the element opened at k (one past the
\* end of the document for an element left open).
RECURSIVE CloseFrom(_, _, _)
CloseFrom(doc, j, depth) ==
    IF j > Len(doc) THEN j
    ELSE IF doc[j].k = "open" /\ doc[j].name \in VoidElements
    THEN CloseFrom(doc, j + 1, depth)
    ELSE IF doc[j].k = "open" THEN CloseFrom(doc, j + 1, depth + 1)
    ELSE IF doc[j].k = "close"
    THEN IF depth = 1 THEN j ELSE CloseFrom(doc, j + 1, depth - 1)
    ELSE CloseFrom(doc, j + 1, depth)

CloseOf(doc, k) ==
    IF doc[k].name \in VoidElements THEN k + 1 ELSE CloseFrom(doc, k + 1, 1)

\* ElementRef::text().collect::<String>(): the text nodes below the element
RECURSIVE TextBetween(_, _, _)
TextBetween(doc, j, stop) ==
    IF j >= stop \/ j > Len(doc) THEN ""
    ELSE (IF doc[j].k = "text" THEN doc[j].s ELSE "") \o TextBetween(doc, j + 1, stop)

element_text(doc, k) == TextBetween(doc, k + 1, CloseOf(doc, k))

\* The class attribute, a list of names separated by spaces, holds c
HasClass(tok, c) == c = "" \/ contains(" " \o tok.class \o " ", " " \o c \o " ")
HasName(tok, n) == n = "" \/ tok.name = n

\* A selector [name, class, anc_name, anc_class]: an element with that name
\* and class ("" for any) below an element with anc_name and anc_class
\* (both "" for no condition on the ancestors).
Matches(doc, k, sel) ==
    /\ doc[k].k = "open"
    /\ HasName(doc[k], sel.name)
    /\ HasClass(doc[k], sel.class)
    /\ \/ sel.anc_name = "" /\ sel.anc_class = ""
       \/ \E a \in 1..(k - 1) :
              /\ doc[a].k = "open"
              /\ CloseOf(doc, a) > k
              /\ HasName(doc[a], sel.anc_name)
              /\ HasClass(doc[a], sel.anc_class)

\* document.select(&selector).next(): the first match in document order,
\* 0 for None.
RECURSIVE SelectFrom(_, _, _)
SelectFrom(doc, sel, k) ==
    IF k > Len(doc) THEN 0
    ELSE IF Matches(doc, k, sel) THEN k
    ELSE SelectFrom(doc, sel, k + 1)

select_first(doc, sel) == SelectFrom(doc, sel, 1)

\* The selectors with .woocommerce-message tried before .woocommerce-error
selectors_message_first ==
    << [name |-> "", class |-> "woocommerce-message", anc_name |-> "", anc_class |-> ""],
       [name |-> "", class |-> "woocommerce-error", anc_name |-> "", anc_class |-> ""],
       [name |-> "", class |-> "wc-block-components-notice-banner__content",
        anc_name |-> "", anc_class |-> ""],
       [name |-> "li", class |-> "", anc_name |-> "ul", anc_class |-> "woocommerce-error"] >>

\* The selectors of extract_woocommerce_error, in the order it tries them.
selectors ==
    << [name |-> "", class |-> "woocommerce-error", anc_name |-> "", anc_class |-> ""],
       [name |-> "", class |-> "woocommerce-message", anc_name |-> "", anc_class |-> ""],
       [name |-> "", class |-> "wc-block-components-notice-banner__content",
        anc_name |-> "", anc_class |-> ""],
       [name |-> "li", class |-> "", anc_name |-> "ul", anc_class |-> "woocommerce-error"] >>

RECURSIVE FirstRegionFrom(_, _)
FirstRegionFrom(document, i) ==
    IF i > Len(selectors)
    THEN error("Payment failed - unable to extract error details")
    ELSE LET k == select_first(document, selectors[i]) IN
         IF k # 0 /\ trim(element_text(document, k)) # ""
         THEN parse_woocommerce_message(element_text(document, k))
         ELSE FirstRegionFrom(document, i + 1)

\* ResponseParser::extract_woocommerce_error
extract_woocommerce_error(html) == FirstRegionFrom(parse_document(html), 1)

\* parse_woocommerce_response reading messages before result
parse_woocommerce_response_messages_first(response_text) ==
    LET json       == from_str(response_text)
        html_lower == to_lowercase(response_text)
    IN  IF json.ok /\ as_str(index(json.v, "messages")) # <<>>
        THEN parse_woocommerce_message(as_str(index(json.v, "messages"))[1])
        ELSE IF json.ok /\ as_str(index(json.v, "result")) = <<"success">>
        THEN charged("Payment successful")
        ELSE IF contains(html_lower, "order received") \/ contains(html_lower, "thank you")
        THEN charged("Order completed successfully")
        ELSE IF contains(html_lower, "payment failed") \/ contains(html_lower, "error")
        THEN extract_woocommerce_error(response_text)
        ELSE error("Unable to parse WooCommerce response")

\* ResponseParser::parse_woocommerce_response
parse_woocommerce_response(response_text) ==
    LET json       == from_str(response_text)
        html_lower == to_lowercase(response_text)
    IN  IF json.ok /\ as_str(index(json.v, "result")) = <<"success">>
        THEN charged("Payment successful")
        ELSE IF json.ok /\ as_str(index(json.v, "messages")) # <<>>
        THEN parse_woocommerce_message(as_str(index(json.v, "messages"))[1])
        ELSE IF contains(html_lower, "order received") \/ contains(html_lower, "thank you")
        THEN charged("Order completed successfully")
        ELSE IF contains(html_lower, "payment failed") \/ contains(html_lower, "error")
        THEN extract_woocommerce_error(response_text)
        ELSE error("Unable to parse WooCommerce response")

\* ResponseParser::extract_between: <<>> for None
extract_between(txt, start, end) ==
    LET s == find(txt, start) IN
    IF s = 0 THEN <<>>
    ELSE LET start_idx == s + Len(start)
             e         == FindFrom(txt, end, start_idx)
         IN  IF e = 0 THEN <<>>
             ELSE <<trim(SubSeq(txt, start_idx, e - 1))>>

\* parse_braintree_response taking a response without a Reason span for a
\* decline
parse_braintree_response_declines_unparsed(response_text) ==
    LET html_lower == to_lowercase(response_text) IN
    IF \/ contains(html_lower, "payment method successfully added")
       \/ contains(html_lower, "successfully added")
    THEN charged("Payment method added successfully")
    ELSE LET found == extract_between(response_text, "Reason: ", "\t\t</li>") IN
         IF found # <<>>
         THEN LET reason       == found[1]
                  reason_lower == to_lowercase(reason)
              IN  IF contains(reason_lower, "declined cvv") \/ contains(reason_lower, "cvv")
                  THEN ccn_live("CVV declined: " \o reason)
                  ELSE IF contains(reason_lower, "insufficient funds")
                  THEN insufficient_funds
                  ELSE IF \/ contains(reason_lower, "postal code")
                          \/ contains(reason_lower, "address")
                  THEN ccn_live("AVS mismatch: " \o reason)
                  ELSE declined(reason)
         ELSE declined("Unable to parse Braintree response")

\* parse_braintree_response with the address rule tried before the
\* insufficient-funds rule
parse_braintree_response_address_first(response_text) ==
    LET html_lower == to_lowercase(response_text) IN
    IF \/ contains(html_lower, "payment method successfully added")
       \/ contains(html_lower, "successfully added")
    THEN charged("Payment method added successfully")
    ELSE LET found == extract_between(response_text, "Reason: ", "\t\t</li>") IN
         IF found # <<>>
         THEN LET reason       == found[1]
                  reason_lower == to_lowercase(reason)
              IN  IF contains(reason_lower, "declined cvv") \/ contains(reason_lower, "cvv")
                  THEN ccn_live("CVV declined: " \o reason)
                  ELSE IF \/ contains(reason_lower, "postal code")
                          \/ contains(reason_lower, "address")
                  THEN ccn_live("AVS mismatch: " \o reason)
                  ELSE IF contains(reason_lower, "insufficient funds")
                  THEN insufficient_funds
                  ELSE declined(reason)
         ELSE error("Unable to parse Braintree response")

\* ResponseParser::parse_braintree_response
parse_braintree_response(response_text) ==
    LET html_lower == to_lowercase(response_text) IN
    IF \/ contains(html_lower, "payment method successfully added")
       \/ contains(html_lower, "successfully added")
    THEN charged("Payment method added successfully")
    ELSE LET found == extract_between(response_text, "Reason: ", "\t\t</li>") IN
         IF found # <<>>
         THEN LET reason       == found[1]
                  reason_lower == to_lowercase(reason)
              IN  IF contains(reason_lower, "declined cvv") \/ contains(reason_lower, "cvv")
                  THEN ccn_live("CVV declined: " \o reason)
                  ELSE IF contains(reason_lower, "insufficient funds")
                  THEN insufficient_funds
                  ELSE IF \/ contains(reason_lower, "postal code")
                          \/ contains(reason_lower, "address")
                  THEN ccn_live("AVS mismatch: " \o reason)
                  ELSE declined(reason)
         ELSE error("Unable to parse Braintree response")

\* parse_givewp_response handing the message to the WooCommerce cascade
parse_givewp_response_woocommerce_cascade(response_text) ==
    LET json == from_str(response_text) IN
    IF json.ok /\ as_bool(index(json.v, "success")) = <<TRUE>>
    THEN charged("Donation successful")
    ELSE IF /\ json.ok
            /\ get(json.v, "data") # <<>>
            /\ as_str(index(get(json.v, "data")[1], "error_message")) # <<>>
    THEN parse_woocommerce_message(
             as_str(index(get(json.v, "data")[1], "error_message"))[1])
    ELSE error("Unable to parse GiveWP response")

\* ResponseParser::parse_givewp_response
parse_givewp_response(response_text) ==
    LET json == from_str(response_text) IN
    IF json.ok /\ as_bool(index(json.v, "success")) = <<TRUE>>
    THEN charged("Donation successful")
    ELSE IF /\ json.ok
            /\ get(json.v, "data") # <<>>
            /\ as_str(index(get(json.v, "data")[1], "error_message")) # <<>>
    THEN categorize_stripe_error(
             as_str(index(get(json.v, "data")[1], "error_message"))[1], "", "")
    ELSE error("Unable to parse GiveWP response")

(***************************************************************************)
(* The payloads the gateways answer with.  A payload is written down as    *)
(* what it says (its shape, the message it carries, its codes, its markup  *)
(* regions) and rendered to the response text the classifiers are given.   *)
(***************************************************************************)
\* Largest number of phrases in one message
MaxPhrases == 2
\* Largest number of markup regions in one page
MaxRegions == 2

Phrases ==
    << "Your card's security code is incorrect.",
       "incorrect_cvc",
       "Your postal code is incorrect.",
       "ZIP code",
       "Insufficient funds.",
       "insufficient_funds",
       "3D Secure authentication",
       "requires_action",
       "Your card has expired.",
       "Your card was declined.",
       "Declined CVV",
       "Address mismatch",
       "Thank you",
       "Payment failed",
       "Try again." >>

\* The sets of at most k of the numbers 1..n
RECURSIVE SubsetsUpTo(_, _)
SubsetsUpTo(n, k) ==
    IF n = 0 \/ k = 0 THEN {{}}
    ELSE SubsetsUpTo(n - 1, k) \cup {S \cup {n} : S \in SubsetsUpTo(n - 1, k - 1)}

\* The phrases numbered in S, in order, separated by a space
RECURSIVE JoinPhrases(_)
JoinPhrases(S) ==
    IF S = {} THEN ""
    ELSE LET i == Least(S) IN
         IF S = {i} THEN Phrases[i]
         ELSE Phrases[i] \o " " \o JoinPhrases(S \ {i})

\* A JSON string literal for x
RECURSIVE EscapeFrom(_, _)
EscapeFrom(x, i) ==
    LET marks == {j \in i..Len(x) : CharAt(x, j) \in {"\"", "\\"}} IN
    IF marks = {} THEN SubSeq(x, i, Len(x))
    ELSE LET j == Least(marks)
         IN  SubSeq(x, i, j - 1) \o "\\" \o CharAt(x, j) \o EscapeFrom(x, j + 1)

Quote(x) == "\"" \o EscapeFrom(x, 1) \o "\""

\* "key": value for each <<key, value text>> of ms, in an object
RECURSIVE MembersText(_, _)
MembersText(ms, i) ==
    IF i > Len(ms) THEN ""
    ELSE Quote(ms[i][1]) \o ": " \o ms[i][2]
         \o (IF i < Len(ms) THEN ", " ELSE "") \o MembersText(ms, i + 1)

Obj(ms) == "{" \o MembersText(ms, 1) \o "}"

\* <<key, "text">> when the option o is Some(text), nothing when it is None
StrMember(key, o) == IF o = <<>> THEN <<>> ELSE << <<key, Quote(o[1])>> >>

\* What a payload says: its shape, the phrases of the message it carries
\* (numbers into Phrases), its Stripe codes (<<>> when absent) and the
\* markup regions of its page.
Payload(shape, phrases, code, decline_code, regions) ==
    [shape |-> shape, phrases |-> phrases, code |-> code,
     decline_code |-> decline_code, regions |-> regions]

NoPayload == Payload("none", {}, <<>>, <<>>, <<>>)

PhraseSets == SubsetsUpTo(Len(Phrases), MaxPhrases)

\* The message a payload carries
MessageOf(p) == JoinPhrases(p.phrases)

\* The code and decline_code members of the Stripe errors
StripeCodes ==
    { << <<>>, <<>> >>,
      << <<"incorrect_cvc">>, <<>> >>,
      << <<"Incorrect_CVC">>, <<"insufficient_funds">> >>,
      << <<"payment_intent_authentication_failure">>, <<>> >>,
      << <<"expired_card">>, <<>> >>,
      << <<"card_declined">>, <<>> >>,
      << <<"card_declined">>, <<"insufficient_funds">> >>,
      << <<"card_declined">>, <<"generic_decline">> >>,
      << <<"processing_error">>, <<>> >> }

\* envelope: {"error": {"message", "code", "decline_code"}};
\* no_message: the envelope without a message; message_number: the envelope
\* with a number for a message; no_error_member: the members without the
\* envelope; truncated: the envelope cut short; array: the envelope in an
\* array; text: the message alone.
StripeMalformed == {"no_error_member", "truncated", "array", "text"}

StripePayloads ==
    {Payload("envelope", S, cd[1], cd[2], <<>>) : S \in PhraseSets, cd \in StripeCodes}
    \cup {Payload(sh, {}, cd[1], cd[2], <<>>) :
             sh \in {"no_message", "message_number"}, cd \in StripeCodes}
    \cup {Payload(sh, S, <<"incorrect_cvc">>, <<>>, <<>>) :
             sh \in StripeMalformed, S \in PhraseSets}

RenderStripe(p) ==
    LET message == CASE p.shape = "no_message" -> <<>>
                     [] p.shape = "message_number" -> << <<"message", "402">> >>
                     [] OTHER -> StrMember("message", <<MessageOf(p)>>)
        inner == Obj(message \o StrMember("code", p.code)
                     \o StrMember("decline_code", p.decline_code))
        whole == Obj(<< <<"error", inner>> >>)
    IN  CASE p.shape = "no_error_member" -> inner
          [] p.shape = "truncated" -> SubSeq(whole, 1, Len(inner))
          [] p.shape = "array" -> "[" \o whole \o "]"
          [] p.shape = "text" -> MessageOf(p)
          [] OTHER -> whole

\* A markup region of a WooCommerce page: the element a selector of
\* extract_woocommerce_error looks for (or a plain paragraph), and its text
Region(kind, txt) == [kind |-> kind, text |-> txt]

RegionKinds == {"error_div", "message_div", "banner", "error_list", "paragraph"}

RegionTexts ==
    {"\n ", "Your card's security code is incorrect.", "Your card was declined."}

Regions == {Region(k, t) : k \in RegionKinds, t \in RegionTexts}

\* The sequences of at most n regions
RECURSIVE RegionSeqs(_)
RegionSeqs(n) ==
    IF n = 0 THEN {<<>>}
    ELSE RegionSeqs(n - 1)
         \cup {Append(rs, r) : rs \in {x \in RegionSeqs(n - 1) : Len(x) = n - 1},
                               r \in Regions}

RenderRegion(r) ==
    CASE r.kind = "error_div" ->
             "<div class=\"woocommerce-error\">" \o r.text \o "</div>"
      [] r.kind = "message_div" ->
             "<div class=\"woocommerce-message\">" \o r.text \o "</div>"
      [] r.kind = "banner" ->
             "<div class=\"wc-block-components-notice-banner__content\">"
                 \o r.text \o "</div>"
      [] r.kind = "error_list" ->
             "<ul class=\"woocommerce-error\" role=\"alert\"><li>" \o r.text \o "</li></ul>"
      [] OTHER -> "<p>" \o r.text \o "</p>"

RECURSIVE RenderRegions(_, _)
RenderRegions(rs, i) ==
    IF i > Len(rs) THEN "" ELSE RenderRegion(rs[i]) \o RenderRegions(rs, i + 1)

\* json_success: {"result": "success", "messages"}; json_messages:
\* {"result": "failure", "messages"}; json_no_messages: {"result":
\* "failure", "messages": null, "notice"}; text: the message alone;
\* html_notice: a page with the message in one region; html: a page of
\* regions.
WooCommercePayloads ==
    {Payload(sh, S, <<>>, <<>>, <<>>) :
        sh \in {"json_success", "json_messages", "json_no_messages", "text"},
        S \in PhraseSets}
    \cup {Payload("html_notice", S, <<>>, <<>>, <<Region(k, JoinPhrases(S))>>) :
             k \in {"error_list", "message_div"}, S \in PhraseSets}
    \cup {Payload("html", {}, <<>>, <<>>, rs) : rs \in RegionSeqs(MaxRegions)}

RenderWooCommerce(p) ==
    CASE p.shape = "json_success" ->
             Obj(<< <<"result", Quote("success")>>, <<"messages", Quote(MessageOf(p))>> >>)
      [] p.shape = "json_messages" ->
             Obj(<< <<"result", Quote("failure")>>, <<"messages", Quote(MessageOf(p))>> >>)
      [] p.shape = "json_no_messages" ->
             Obj(<< <<"result", Quote("failure")>>, <<"messages", "null">>,
                    <<"notice", Quote(MessageOf(p))>> >>)
      [] p.shape = "text" -> MessageOf(p)
      [] OTHER -> "<html><body>" \o RenderRegions(p.regions, 1) \o "</body></html>"

\* reason: the message in a "Reason: " span; added: the success notice and
\* a span; no_end_marker: the span without its end; text: the message alone.
BraintreePayloads ==
    {Payload(sh, S, <<>>, <<>>, <<>>) :
        sh \in {"reason", "added", "no_end_marker", "text"}, S \in PhraseSets}

RenderBraintree(p) ==
    CASE p.shape = "reason" ->
             "<li>\n\t\t\tStatus code 2010: Reason: " \o MessageOf(p) \o "\t\t</li>"
      [] p.shape = "added" ->
             "<div>Payment method successfully added.</div><li>\n\t\t\tReason: "
                 \o MessageOf(p) \o "\t\t</li>"
      [] p.shape = "no_end_marker" ->
             "<li>Status code 2010: Reason: " \o MessageOf(p) \o "</li>"
      [] OTHER -> MessageOf(p)

\* success_true: {"success": true, "data": {"error_message"}};
\* error_message: the same with false; success_text: with "true", a string;
\* no_data: the message outside data; message_number: a number for the
\* message; text: the message alone.
GiveWPPayloads ==
    {Payload(sh, S, <<>>, <<>>, <<>>) :
        sh \in {"success_true", "error_message", "success_text", "no_data",
                "message_number", "text"},
        S \in PhraseSets}

RenderGiveWP(p) ==
    LET data == Obj(<< <<"error_message", Quote(MessageOf(p))>> >>) IN
    CASE p.shape = "success_true" ->
             Obj(<< <<"success", "true">>, <<"data", data>> >>)
      [] p.shape = "error_message" ->
             Obj(<< <<"success", "false">>, <<"data", data>> >>)
      [] p.shape = "success_text" ->
             Obj(<< <<"success", Quote("true")>>, <<"data", data>> >>)
      [] p.shape = "no_data" ->
             Obj(<< <<"success", "false">>, <<"error_message", Quote(MessageOf(p))>> >>)
      [] p.shape = "message_number" ->
             Obj(<< <<"success", "false">>,
                    <<"data", Obj(<< <<"error_message", "402">>,
                                     <<"note", Quote(MessageOf(p))>> >>)>> >>)
      [] OTHER -> MessageOf(p)

\* The messages a gateway driver gives a response it builds itself
DriverMessages == {"", "Gateway timed out"}

Init ==
    /\ pc = "idle"
    /\ op = "none"
    /\ text = ""
    /\ payload = NoPayload
    /\ response = <<>>
    /\ notified = FALSE
    /\ input = <<>>
    /\ result = <<>>
    /\ registry = <<>>
    /\ calls = <<>>

\* A gateway driver hands a Stripe error response to the classifier.
ParseStripeError ==
    /\ pc = "idle"
    /\ \E p \in StripePayloads :
           /\ payload' = p
           /\ text' = RenderStripe(p)
           /\ response' = <<parse_stripe_error(RenderStripe(p))>>
    /\ op' = "parse_stripe_error"
    /\ pc' = "classified"
    /\ UNCHANGED notified
    /\ UNCHANGED utilities

\* A gateway driver hands a WooCommerce checkout response to the classifier.
ParseWooCommerceResponse ==
    /\ pc = "idle"
    /\ \E p \in WooCommercePayloads :
           /\ payload' = p
           /\ text' = RenderWooCommerce(p)
           /\ response' = <<parse_woocommerce_response(RenderWooCommerce(p))>>
    /\ op' = "parse_woocommerce_response"
    /\ pc' = "classified"
    /\ UNCHANGED notified
    /\ UNCHANGED utilities

\* A gateway driver hands a Braintree response to the classifier.
ParseBraintreeResponse ==
    /\ pc = "idle"
    /\ \E p \in BraintreePayloads :
           /\ payload' = p
           /\ text' = RenderBraintree(p)
           /\ response' = <<parse_braintree_response(RenderBraintree(p))>>
    /\ op' = "parse_braintree_response"
    /\ pc' = "classified"
    /\ UNCHANGED notified
    /\ UNCHANGED utilities

\* A gateway driver hands a GiveWP donation response to the classifier.
ParseGiveWPResponse ==
    /\ pc = "idle"
    /\ \E p \in GiveWPPayloads :
           /\ payload' = p
           /\ text' = RenderGiveWP(p)
           /\ response' = <<parse_givewp_response(RenderGiveWP(p))>>
    /\ op' = "parse_givewp_response"
    /\ pc' = "classified"
    /\ UNCHANGED notified
    /\ UNCHANGED utilities

\* A gateway driver builds a response itself, with any status of the
\* taxonomy (PaymentResponse::new and the constructors over it).
DriverResponse ==
    /\ pc = "idle"
    /\ \E st \in PaymentStatus, m \in DriverMessages :
           response' = <<new(st, m)>>
    /\ op' = "new"
    /\ pc' = "classified"
    /\ UNCHANGED <<text, payload, notified>>
    /\ UNCHANGED utilities

\* The notifier is given the response only when should_notify() holds.
Notify ==
    /\ pc = "classified"
    /\ notified' = should_notify(response[1].status)
    /\ pc' = "delivered"
    /\ UNCHANGED <<op, text, payload, response>>
    /\ UNCHANGED utilities

\* The probe is over; the next one starts from nothing.
Finish ==
    /\ pc = "delivered"
    /\ pc' = "idle"
    /\ op' = "none"
    /\ text' = ""
    /\ payload' = NoPayload
    /\ response' = <<>>
    /\ notified' = FALSE
    /\ UNCHANGED utilities

Next ==
    \/ ParseStripeError
    \/ ParseWooCommerceResponse
    \/ ParseBraintreeResponse
    \/ ParseGiveWPResponse
    \/ DriverResponse
    \/ Notify
    \/ Finish

Spec == Init /\ [][Next]_vars

(***************************************************************************)
(* What the payloads say, read off the phrases and codes they were built   *)
(* from (not off the rendered text).                                       *)
(***************************************************************************)
Classifiers ==
    {"parse_stripe_error", "parse_woocommerce_response",
     "parse_braintree_response", "parse_givewp_response"}

Classified == pc \in {"classified", "delivered"}

\* The payload's message holds one of the phrases of `set`
Says(p, set) == \E i \in p.phrases : Phrases[i] \in set

SecurityCodePhrase == {"Your card's security code is incorrect."}
CvcCodePhrase      == {"incorrect_cvc"}
PostalPhrases      == {"Your postal code is incorrect.", "ZIP code"}
FundsPhrase        == {"Insufficient funds."}
FundsCodePhrase    == {"insufficient_funds"}
ThreeDsPhrases     == {"3D Secure authentication", "requires_action"}
ExpiredPhrases     == {"Your card has expired."}
DeclinedPhrases    == {"Your card was declined.", "Declined CVV"}
CvvPhrases         == {"Declined CVV"}
AddressPhrases     == {"Address mismatch"}
ThankYouPhrases    == {"Thank you"}
FailedPhrases      == {"Payment failed"}

\* The payload's code is c, in whatever case it is written
CodeIs(p, c) ==
    \/ p.code = <<c>>
    \/ c = "incorrect_cvc" /\ p.code = <<"Incorrect_CVC">>

\* The first rule of the Stripe cascade, (1) to (7), that the message S and
\* the codes of the payload match
StripeRule(p) ==
    IF Says(p, SecurityCodePhrase \cup CvcCodePhrase) \/ CodeIs(p, "incorrect_cvc")
    THEN "1 cvc"
    ELSE IF Says(p, PostalPhrases)
    THEN "2 postal"
    ELSE IF Says(p, FundsPhrase \cup FundsCodePhrase)
            \/ p.decline_code = <<"insufficient_funds">>
    THEN "3 funds"
    ELSE IF Says(p, ThreeDsPhrases)
            \/ CodeIs(p, "payment_intent_authentication_failure")
    THEN "4 authentication"
    ELSE IF Says(p, ExpiredPhrases) \/ CodeIs(p, "expired_card")
    THEN "5 expired"
    ELSE IF Says(p, DeclinedPhrases) \/ CodeIs(p, "card_declined")
    THEN "6 declined"
    ELSE "7 default"

StripeRuleStatus(rule) ==
    CASE rule = "1 cvc" -> "CcnLive"
      [] rule = "2 postal" -> "CcnLive"
      [] rule = "3 funds" -> "InsufficientFunds"
      [] rule = "4 authentication" -> "ThreeDsRequired"
      [] rule = "5 expired" -> "Declined"
      [] rule = "6 declined" -> "Declined"
      [] OTHER -> "Error"

\* The Stripe payloads that are JSON with an error member
StripeEnvelopes == {"envelope", "no_message", "message_number"}

(***************************************************************************)
(* The claims.                                                             *)
(***************************************************************************)
\* C1: for each of the seven statuses, the notifier is given the response
\* (should_notify) exactly when the status is Charged, CcnLive,
\* ThreeDsRequired or InsufficientFunds, and never for Declined, Error or
\* Unknown.
C1_ShouldNotifyExactlyTheHits ==
    pc = "delivered" =>
        /\ response[1].status = "Charged" => notified
        /\ response[1].status = "CcnLive" => notified
        /\ response[1].status = "ThreeDsRequired" => notified
        /\ response[1].status = "InsufficientFunds" => notified
        /\ response[1].status = "Declined" => ~notified
        /\ response[1].status = "Error" => ~notified
        /\ response[1].status = "Unknown" => ~notified
        /\ response[1].status \in PaymentStatus

C1_Witness ==
    pc = "delivered" /\ response[1].status = "Unknown" /\ ~notified

\* C3: a Stripe error is given the status of the first rule it matches in
\* the order (1) CVC, (2) postal, (3) insufficient funds, (4)
\* authentication, (5) expired, (6) declined, (7) default; so an error with
\* an insufficient-funds phrase and the code incorrect_cvc is CcnLive.
C3_StripeFirstMatchWins ==
    (Classified /\ op = "parse_stripe_error" /\ payload.shape \in StripeEnvelopes) =>
        response[1].status = StripeRuleStatus(StripeRule(payload))

C3_Witness ==
    /\ Classified
    /\ op = "parse_stripe_error"
    /\ payload.shape = "envelope"
    /\ Says(payload, FundsPhrase)
    /\ payload.code = <<"incorrect_cvc">>
    /\ response[1].status = "CcnLive"

\* The first rule of the WooCommerce message cascade that the message matches
WooCommerceRule(p) ==
    IF Says(p, SecurityCodePhrase) THEN "cvc"
    ELSE IF Says(p, FundsPhrase) THEN "funds"
    ELSE IF Says(p, ExpiredPhrases) THEN "expired"
    ELSE IF Says(p, DeclinedPhrases) THEN "declined"
    ELSE "default"

\* Every region of the page is empty but for white space
BlankPage(p) == \A i \in 1..Len(p.regions) : p.regions[i].text = "\n "

\* The payload cannot be read as what the classifier expects, lacks the
\* structure it looks for, or matches none of its rules.
NoVerdict(o, p) ==
    \/ /\ o = "parse_stripe_error"
       /\ \/ p.shape \in StripeMalformed
          \/ p.shape \in StripeEnvelopes /\ StripeRule(p) = "7 default"
    \/ /\ o = "parse_woocommerce_response"
       /\ \/ p.shape \in {"text", "json_no_messages"} /\ ~Says(p, ThankYouPhrases)
          \/ p.shape = "json_messages" /\ WooCommerceRule(p) = "default"
          \/ p.shape = "html" /\ BlankPage(p)
    \/ /\ o = "parse_braintree_response"
       /\ p.shape \in {"no_end_marker", "text"}
    \/ /\ o = "parse_givewp_response"
       /\ \/ p.shape \in {"text", "no_data", "message_number"}
          \/ p.shape \in {"error_message", "success_text"} /\ StripeRule(p) = "7 default"

\* C2: every classifier returns, for every payload, a response with one
\* status of the taxonomy, and a payload that cannot be read, lacks the
\* expected structure or matches no rule is given the status Error.
C2_ClassificationIsTotal ==
    (Classified /\ op \in Classifiers) =>
        /\ Len(response) = 1
        /\ response[1].status \in PaymentStatus
        /\ NoVerdict(op, payload) => response[1].status = "Error"

C2_Witness ==
    /\ Classified
    /\ op = "parse_braintree_response"
    /\ payload.shape = "no_end_marker"
    /\ Says(payload, CvvPhrases)
    /\ response[1].status = "Error"

\* C5: parse_stripe_error on text that is not JSON, or on JSON without an
\* error member, returns Error with the message "Failed to parse Stripe
\* error response", whatever phrases and codes the text holds.
C5_MalformedStripeIsFixedError ==
    (Classified /\ op = "parse_stripe_error" /\ payload.shape \in StripeMalformed) =>
        response[1] = new("Error", "Failed to parse Stripe error response")

C5_Witness ==
    /\ Classified
    /\ op = "parse_stripe_error"
    /\ payload.shape = "no_error_member"
    /\ Says(payload, SecurityCodePhrase)
    /\ response[1] = new("Error", "Failed to parse Stripe error response")

\* The error message of a Stripe error: the message member, or the
\* placeholder "Unknown error" of an error that has no message text.
OriginalMessage(p) == IF p.shape = "envelope" THEN MessageOf(p) ELSE "Unknown error"

\* C6: a Stripe error classified by rule (6) carries the message
\* "Card declined: " followed by the original error message, unchanged, and
\* one classified by rule (7) carries the original error message itself.
C6_StripeEchoesOriginalMessage ==
    (Classified /\ op = "parse_stripe_error" /\ payload.shape \in StripeEnvelopes) =>
        /\ StripeRule(payload) = "6 declined" =>
               response[1] = new("Declined", "Card declined: " \o OriginalMessage(payload))
        /\ StripeRule(payload) = "7 default" =>
               response[1] = new("Error", OriginalMessage(payload))

C6_Witness ==
    /\ Classified
    /\ op = "parse_stripe_error"
    /\ payload.shape = "envelope"
    /\ StripeRule(payload) = "6 declined"
    /\ response[1].message = "Card declined: Your card was declined. Try again."

WooCommerceRuleStatus(rule) ==
    CASE rule = "cvc" -> "CcnLive"
      [] rule = "funds" -> "InsufficientFunds"
      [] rule = "expired" -> "Declined"
      [] rule = "declined" -> "Declined"
      [] OTHER -> "Error"

\* C7: a WooCommerce JSON payload with result "success" is Charged whatever
\* its messages say; otherwise its messages text has the status of the
\* first rule it matches in the order CVC, insufficient funds, expired,
\* declined, and Error when it matches none.
C7_WooCommerceJson ==
    (Classified /\ op = "parse_woocommerce_response") =>
        /\ payload.shape = "json_success" => response[1].status = "Charged"
        /\ payload.shape = "json_messages" =>
               response[1].status = WooCommerceRuleStatus(WooCommerceRule(payload))

C7_Witness ==
    /\ Classified
    /\ op = "parse_woocommerce_response"
    /\ payload.shape = "json_success"
    /\ Says(payload, SecurityCodePhrase)
    /\ Says(payload, DeclinedPhrases)
    /\ response[1].status = "Charged"

\* The first rule of the Braintree Reason-span cascade that the span matches
BraintreeRule(p) ==
    IF Says(p, CvvPhrases) THEN "cvv"
    ELSE IF Says(p, FundsPhrase) THEN "funds"
    ELSE IF Says(p, {"Your postal code is incorrect."} \cup AddressPhrases) THEN "address"
    ELSE "other"

\* C9: a Braintree payload holding "successfully added" is Charged even
\* when it has a Reason span; otherwise the span is classified in the order
\* cvv -> CcnLive, insufficient funds -> InsufficientFunds, postal/address
\* -> CcnLive worded "AVS mismatch", anything else -> Declined; and a
\* payload without a delimited span is Error.
C9_Braintree ==
    (Classified /\ op = "parse_braintree_response") =>
        /\ payload.shape = "added" => response[1].status = "Charged"
        /\ payload.shape = "reason" =>
               response[1] =
                   CASE BraintreeRule(payload) = "cvv" ->
                            new("CcnLive", "CVV declined: " \o MessageOf(payload))
                     [] BraintreeRule(payload) = "funds" ->
                            new("InsufficientFunds", "Insufficient funds")
                     [] BraintreeRule(payload) = "address" ->
                            new("CcnLive", "AVS mismatch: " \o MessageOf(payload))
                     [] OTHER -> new("Declined", MessageOf(payload))
        /\ payload.shape \in {"no_end_marker", "text"} => response[1].status = "Error"

C9_Witness ==
    /\ Classified
    /\ op = "parse_braintree_response"
    /\ payload.shape = "reason"
    /\ Says(payload, FundsPhrase)
    /\ Says(payload, AddressPhrases)
    /\ response[1].status = "InsufficientFunds"

\* The Stripe error {"error": {"message": m}}
StripeErrorOf(m) == Obj(<< <<"error", Obj(<< <<"message", Quote(m)>> >>)>> >>)

\* C10: a GiveWP payload with success true is Charged; otherwise one with a
\* string data.error_message m gets the very response (status and message)
\* parse_stripe_error gives {"error": {"message": m}}; any other payload is
\* Error.
C10_GiveWPDelegatesToStripe ==
    (Classified /\ op = "parse_givewp_response") =>
        /\ payload.shape = "success_true" => response[1].status = "Charged"
        /\ payload.shape \in {"error_message", "success_text"} =>
               response[1] = parse_stripe_error(StripeErrorOf(MessageOf(payload)))
        /\ payload.shape \in {"no_data", "message_number", "text"} =>
               response[1].status = "Error"

C10_Witness ==
    /\ Classified
    /\ op = "parse_givewp_response"
    /\ payload.shape = "error_message"
    /\ Says(payload, PostalPhrases)
    /\ Says(payload, DeclinedPhrases)
    /\ response[1] = new("CcnLive", "Your postal code is incorrect.")

\* The payload's message reaches a message cascade: the Stripe cascade
\* (Stripe errors and GiveWP error messages), the WooCommerce message
\* cascade (a messages member, or the text of a page's error notice) or the
\* rules for a Braintree Reason span.
StripeMessage(o, p) ==
    \/ o = "parse_stripe_error" /\ p.shape \in StripeEnvelopes
    \/ o = "parse_givewp_response" /\ p.shape \in {"error_message", "success_text"}

WooCommerceMessage(o, p) ==
    /\ o = "parse_woocommerce_response"
    /\ \/ p.shape = "json_messages"
       \/ p.shape = "html_notice" /\ p.regions[1].kind = "error_list"

BraintreeMessage(o, p) == o = "parse_braintree_response" /\ p.shape = "reason"

\* Decline language: an expired or declined card
SaysDecline(p) ==
    \/ Says(p, ExpiredPhrases \cup DeclinedPhrases)
    \/ CodeIs(p, "expired_card")
    \/ CodeIs(p, "card_declined")

\* The card-validity signals of the Stripe cascade: CVC, postal, 3DS
StripeSignal(p) ==
    \/ Says(p, SecurityCodePhrase \cup CvcCodePhrase \cup PostalPhrases \cup ThreeDsPhrases)
    \/ CodeIs(p, "incorrect_cvc")
    \/ CodeIs(p, "payment_intent_authentication_failure")

\* C4 as stated: in every classifier a message with a card-validity signal
\* (CVC mismatch, postal mismatch, 3DS) is never Declined or Error, and a
\* message with decline language is never Error.
C4_EverySignalOutranksDecline ==
    (Classified /\ \/ StripeMessage(op, payload)
                   \/ WooCommerceMessage(op, payload)
                   \/ BraintreeMessage(op, payload)) =>
        /\ Says(payload, SecurityCodePhrase \cup PostalPhrases \cup ThreeDsPhrases) =>
               response[1].status \notin {"Declined", "Error"}
        /\ SaysDecline(payload) => response[1].status # "Error"

\* C4, amended: in each message cascade the card-validity signals the
\* cascade has a rule for (Stripe and GiveWP: CVC, postal, 3DS; WooCommerce:
\* the security-code phrase; Braintree: cvv, postal code, address) are never
\* Declined or Error, and decline language is never Error, also when the
\* message matches several rules.
C4_RecognisedSignalsOutrankDecline ==
    Classified =>
        /\ StripeMessage(op, payload) =>
               /\ StripeSignal(payload) => response[1].status \notin {"Declined", "Error"}
               /\ SaysDecline(payload) => response[1].status # "Error"
        /\ WooCommerceMessage(op, payload) =>
               /\ Says(payload, SecurityCodePhrase) =>
                      response[1].status \notin {"Declined", "Error"}
               /\ SaysDecline(payload) => response[1].status # "Error"
        /\ BraintreeMessage(op, payload) =>
               /\ Says(payload, CvvPhrases \cup {"Your postal code is incorrect."}
                                \cup AddressPhrases) =>
                      response[1].status \notin {"Declined", "Error"}
               /\ SaysDecline(payload) => response[1].status # "Error"

C4_Witness ==
    /\ Classified
    /\ op = "parse_woocommerce_response"
    /\ payload.shape = "json_messages"
    /\ Says(payload, SecurityCodePhrase)
    /\ Says(payload, DeclinedPhrases)
    /\ response[1].status = "CcnLive"

\* The payloads parse_woocommerce_response can read as JSON
WooCommerceJson == {"json_success", "json_messages", "json_no_messages"}

\* The text of the payload holds "thank you" / holds "payment failed" or
\* "error" (the class woocommerce-error of an error notice holds "error")
SaysThankYou(p) == Says(p, ThankYouPhrases)

SaysFailed(p) ==
    \/ Says(p, FailedPhrases)
    \/ \E i \in 1..Len(p.regions) : p.regions[i].kind \in {"error_div", "error_list"}

\* The regions each selector of the fixed list matches, in the order of the
\* list: .woocommerce-error (a div or the ul of an error list),
\* .woocommerce-message, the notice banner, ul.woocommerce-error li
SelectorKinds ==
    << {"error_div", "error_list"}, {"message_div"}, {"banner"}, {"error_list"} >>

Blank(t) == t \in {"", "\n "}

\* The first region of the page that selector n matches (0 for none)
FirstOfKind(p, n) ==
    LET hits == {i \in 1..Len(p.regions) : p.regions[i].kind \in SelectorKinds[n]}
    IN  IF hits = {} THEN 0 ELSE Least(hits)

\* The selectors whose first region has text
WithText(p) ==
    {n \in 1..Len(SelectorKinds) :
        FirstOfKind(p, n) # 0 /\ ~Blank(p.regions[FirstOfKind(p, n)].text)}

\* The status the message cascade gives the text of a region
RegionStatus(p, t) ==
    IF p.shape = "html_notice" THEN WooCommerceRuleStatus(WooCommerceRule(p))
    ELSE IF t = "Your card's security code is incorrect." THEN "CcnLive"
    ELSE "Declined"

\* What the HTML heuristics make of a payload: "thank you" first, then
\* "payment failed" / "error" and the first region with text, else the
\* generic error.
HeuristicsOutcome(p) ==
    IF SaysThankYou(p)
    THEN [status |-> "Charged", message |-> <<"Order completed successfully">>]
    ELSE IF SaysFailed(p)
    THEN IF WithText(p) = {}
         THEN [status  |-> "Error",
               message |-> <<"Payment failed - unable to extract error details">>]
         ELSE [status  |-> RegionStatus(p,
                               p.regions[FirstOfKind(p, Least(WithText(p)))].text),
               message |-> <<>>]
    ELSE [status |-> "Error", message |-> <<"Unable to parse WooCommerce response">>]

\* The response is what the heuristics make of the payload
ByHeuristics(r, p) ==
    /\ r.status = HeuristicsOutcome(p).status
    /\ HeuristicsOutcome(p).message \in {<<>>, <<r.message>>}

\* C8 as stated: the HTML heuristics are applied only to a payload that is
\* not JSON (a JSON payload that result and messages do not decide gets the
\* generic error, whatever its text), and to such a payload in the order
\* "order received" / "thank you" -> Charged, "payment failed" / "error" ->
\* the first non-empty region through the message cascade, else Error.
C8_HeuristicsOnlyForNonJson ==
    (Classified /\ op = "parse_woocommerce_response") =>
        /\ payload.shape = "json_no_messages" =>
               response[1] = new("Error", "Unable to parse WooCommerce response")
        /\ payload.shape \notin WooCommerceJson => ByHeuristics(response[1], payload)

\* C8, amended: the HTML heuristics are applied to every payload that the
\* JSON rules do not decide (one that is not JSON, and a JSON one whose
\* result is not "success" and whose messages is not a string), in the
\* order "order received" / "thank you" -> Charged, "payment failed" /
\* "error" -> the first non-empty region through the message cascade (Error
\* with a fixed message when no region has text), else the generic Error.
C8_HeuristicsForUndecidedPayloads ==
    (Classified /\ op = "parse_woocommerce_response"
                /\ payload.shape \notin {"json_success", "json_messages"}) =>
        ByHeuristics(response[1], payload)

C8_Witness ==
    /\ Classified
    /\ op = "parse_woocommerce_response"
    /\ payload.shape = "html"
    /\ Len(payload.regions) = 2
    /\ payload.regions[1] = Region("message_div", "Your card was declined.")
    /\ payload.regions[2] = Region("error_list", "Your card's security code is incorrect.")
    /\ response[1].status = "CcnLive"

\* A JSON payload that the JSON rules do not decide is classified by the
\* heuristics
C8_JsonWitness ==
    /\ Classified
    /\ op = "parse_woocommerce_response"
    /\ payload.shape = "json_no_messages"
    /\ SaysThankYou(payload)
    /\ response[1] = new("Charged", "Order completed successfully")

(***************************************************************************)
(* models/card.rs: Card::from_string and its serialisation.  A Result is   *)
(* [ok, v]: v the value of Ok or the error of Err.                         *)
(***************************************************************************)
Ok(x)  == [ok |-> TRUE, v |-> x]
Err(e) == [ok |-> FALSE, v |-> e]

\* str::split(sep).collect(): the pieces between the separators, in order
split(s, sep) ==
    LET cuts   == {i \in 1..Len(s) : CharAt(s, i) = sep}
        n      == Cardinality(cuts)
        Cut(k) == IF k = 0 THEN 0
                  ELSE IF k = n + 1 THEN Len(s) + 1
                  ELSE CHOOSE i \in cuts : Cardinality({j \in cuts : j < i}) = k - 1
    IN  [k \in 1..(n + 1) |-> SubSeq(s, Cut(k - 1) + 1, Cut(k) - 1)]

\* str::replace(c, ""), for a pattern of one character
RECURSIVE RemoveRange(_, _, _, _)
RemoveRange(s, c, lo, hi) ==
    IF lo > hi THEN ""
    ELSE IF lo = hi THEN (IF CharAt(s, lo) = c THEN "" ELSE CharAt(s, lo))
    ELSE LET mid == (lo + hi) \div 2
         IN  RemoveRange(s, c, lo, mid) \o RemoveRange(s, c, mid + 1, hi)

remove(s, c) == RemoveRange(s, c, 1, Len(s))

\* s.chars().all(|c| c.is_ascii_digit())
all_ascii_digit(s) == \A i \in 1..Len(s) : IsDigit(CharAt(s, i))

starts_with(s, p) == MatchAt(s, p, 1)

DigitValue(c) ==
    CASE c = "0" -> 0 [] c = "1" -> 1 [] c = "2" -> 2 [] c = "3" -> 3
      [] c = "4" -> 4 [] c = "5" -> 5 [] c = "6" -> 6 [] c = "7" -> 7
      [] c = "8" -> 8 [] c = "9" -> 9

DigitChar(d) == CharAt("0123456789", d + 1)

\* str::parse::<u8>(): <<n>> for Ok(n), <<>> for Err (no digit, a character
\* that is no digit, or a value above u8::MAX)
RECURSIVE ParseU8From(_, _, _)
ParseU8From(s, i, acc) ==
    IF i > Len(s) THEN <<acc>>
    ELSE IF ~IsDigit(CharAt(s, i)) THEN <<>>
    ELSE LET next == acc * 10 + DigitValue(CharAt(s, i))
         IN  IF next > 255 THEN <<>> ELSE ParseU8From(s, i + 1, next)

parse_u8(s) ==
    LET digits == IF starts_with(s, "+") THEN SubSeq(s, 2, Len(s)) ELSE s
    IN  IF digits = "" THEN <<>> ELSE ParseU8From(digits, 1, 0)

\* The decimal digits of n
RECURSIVE Decimal(_)
Decimal(n) == IF n < 10 THEN DigitChar(n) ELSE Decimal(n \div 10) \o DigitChar(n % 10)

\* format!("{:02}", n)
format_02(n) == IF n < 10 THEN "0" \o Decimal(n) ELSE Decimal(n)

Card(number, month, year, cvv) ==
    [number |-> number, month |-> month, year |-> year, cvv |-> cvv]

\* from_string with the month kept as it was typed
from_string_month_kept(raw) ==
    LET parts  == split(trim(raw), "|")
        number == remove(remove(parts[1], " "), "-")
        month  == trim(parts[2])
        year   == trim(parts[3])
        cvv    == trim(parts[4])
    IN  IF Len(parts) # 4 THEN Err("InvalidFormat")
        ELSE IF ~all_ascii_digit(number) THEN Err("InvalidNumber")
        ELSE IF Len(number) < 13 \/ Len(number) > 19 THEN Err("InvalidNumber")
        ELSE IF ~all_ascii_digit(month) THEN Err("InvalidMonth")
        ELSE IF parse_u8(month) = <<>> THEN Err("InvalidMonth")
        ELSE IF parse_u8(month)[1] < 1 \/ parse_u8(month)[1] > 12 THEN Err("InvalidMonth")
        ELSE IF ~all_ascii_digit(year) THEN Err("InvalidYear")
        ELSE IF Len(year) = 4 /\ ~starts_with(year, "20") THEN Err("InvalidYear")
        ELSE IF Len(year) # 4 /\ Len(year) # 2 THEN Err("InvalidYear")
        ELSE IF ~all_ascii_digit(cvv) THEN Err("InvalidCvv")
        ELSE IF Len(cvv) < 3 \/ Len(cvv) > 4 THEN Err("InvalidCvv")
        ELSE Ok(Card(number, month,
                     IF Len(year) = 4 THEN SubSeq(year, 3, 4) ELSE year, cvv))

\* from_string with the cvv checked before the year
from_string_cvv_before_year(raw) ==
    LET parts  == split(trim(raw), "|")
        number == remove(remove(parts[1], " "), "-")
        month  == trim(parts[2])
        year   == trim(parts[3])
        cvv    == trim(parts[4])
    IN  IF Len(parts) # 4 THEN Err("InvalidFormat")
        ELSE IF ~all_ascii_digit(number) THEN Err("InvalidNumber")
        ELSE IF Len(number) < 13 \/ Len(number) > 19 THEN Err("InvalidNumber")
        ELSE IF ~all_ascii_digit(month) THEN Err("InvalidMonth")
        ELSE IF parse_u8(month) = <<>> THEN Err("InvalidMonth")
        ELSE IF parse_u8(month)[1] < 1 \/ parse_u8(month)[1] > 12 THEN Err("InvalidMonth")
        ELSE IF ~all_ascii_digit(cvv) THEN Err("InvalidCvv")
        ELSE IF Len(cvv) < 3 \/ Len(cvv) > 4 THEN Err("InvalidCvv")
        ELSE IF ~all_ascii_digit(year) THEN Err("InvalidYear")
        ELSE IF Len(year) = 4 /\ ~starts_with(year, "20") THEN Err("InvalidYear")
        ELSE IF Len(year) # 4 /\ Len(year) # 2 THEN Err("InvalidYear")
        ELSE Ok(Card(number, format_02(parse_u8(month)[1]),
                     IF Len(year) = 4 THEN SubSeq(year, 3, 4) ELSE year, cvv))

\* Card::from_string
from_string(raw) ==
    LET parts  == split(trim(raw), "|")
        number == remove(remove(parts[1], " "), "-")
        month  == trim(parts[2])
        year   == trim(parts[3])
        cvv    == trim(parts[4])
    IN  IF Len(parts) # 4 THEN Err("InvalidFormat")
        ELSE IF ~all_ascii_digit(number) THEN Err("InvalidNumber")
        ELSE IF Len(number) < 13 \/ Len(number) > 19 THEN Err("InvalidNumber")
        ELSE IF ~all_ascii_digit(month) THEN Err("InvalidMonth")
        ELSE IF parse_u8(month) = <<>> THEN Err("InvalidMonth")
        ELSE IF parse_u8(month)[1] < 1 \/ parse_u8(month)[1] > 12 THEN Err("InvalidMonth")
        ELSE IF ~all_ascii_digit(year) THEN Err("InvalidYear")
        ELSE IF Len(year) = 4 /\ ~starts_with(year, "20") THEN Err("InvalidYear")
        ELSE IF Len(year) # 4 /\ Len(year) # 2 THEN Err("InvalidYear")
        ELSE IF ~all_ascii_digit(cvv) THEN Err("InvalidCvv")
        ELSE IF Len(cvv) < 3 \/ Len(cvv) > 4 THEN Err("InvalidCvv")
        ELSE Ok(Card(number, format_02(parse_u8(month)[1]),
                     IF Len(year) = 4 THEN SubSeq(year, 3, 4) ELSE year, cvv))

\* to_string with the year written in full
to_string_full_year(card) ==
    card.number \o "|" \o card.month \o "|" \o "20" \o card.year \o "|" \o card.cvv

\* Card::to_string
to_string(card) ==
    card.number \o "|" \o card.month \o "|" \o card.year \o "|" \o card.cvv

\* Display for Card
fmt(card) ==
    card.number \o "|" \o card.month \o "|" \o card.year \o "|" \o card.cvv

(***************************************************************************)
(* The card lines given to Card::from_string.  Each field is listed with   *)
(* what the card format makes of it: whether it is valid, and the value    *)
(* the parsed card holds for it.                                           *)
(***************************************************************************)
Field(t, valid, value) == [text |-> t, valid |-> valid, value |-> value]

CardNumbers ==
    { Field("4532123456789012", TRUE, "4532123456789012"),
      Field("4532 1234-5678 9012", TRUE, "4532123456789012"),
      Field("4532015112830", TRUE, "4532015112830"),
      Field("4532015112830366123", TRUE, "4532015112830366123"),
      Field("453201511283", FALSE, ""),
      Field("45320151128303661234", FALSE, ""),
      Field("4532x23456789012", FALSE, ""),
      Field("", FALSE, "") }

CardMonths ==
    { Field("6", TRUE, "06"), Field("06", TRUE, "06"), Field("12", TRUE, "12"),
      Field("1", TRUE, "01"), Field("006", TRUE, "06"),
      Field("13", FALSE, ""), Field("0", FALSE, ""), Field("00", FALSE, ""),
      Field("1a", FALSE, ""), Field("", FALSE, ""), Field("256", FALSE, ""),
      Field("-1", FALSE, ""), Field("+6", FALSE, "") }

CardYears ==
    { Field("25", TRUE, "25"), Field("2025", TRUE, "25"), Field("00", TRUE, "00"),
      Field("1925", FALSE, ""), Field("5", FALSE, ""), Field("205", FALSE, ""),
      Field("2a", FALSE, ""), Field("", FALSE, ""), Field("20255", FALSE, "") }

CardCvvs ==
    { Field("123", TRUE, "123"), Field("1234", TRUE, "1234"), Field("000", TRUE, "000"),
      Field("12", FALSE, ""), Field("12345", FALSE, ""), Field("12a", FALSE, ""),
      Field("", FALSE, "") }

\* How the fields are laid out in the line
FourParts == {"plain", "padded", "spaced_fields"}
CardShapes == FourParts \cup {"three_parts", "five_parts", "no_separator"}

CardInputs ==
    [shape : FourParts, number : CardNumbers, month : CardMonths,
     year : CardYears, cvv : CardCvvs]
    \cup [shape : CardShapes \ FourParts,
          number : {Field("4532123456789012", TRUE, "4532123456789012")},
          month : {Field("12", TRUE, "12"), Field("13", FALSE, "")},
          year : {Field("25", TRUE, "25")},
          cvv : {Field("123", TRUE, "123"), Field("", FALSE, "")}]

RenderCard(i) ==
    CASE i.shape = "plain" ->
             i.number.text \o "|" \o i.month.text \o "|" \o i.year.text \o "|" \o i.cvv.text
      [] i.shape = "padded" ->
             " \t" \o i.number.text \o "|" \o i.month.text \o "|" \o i.year.text
                   \o "|" \o i.cvv.text \o "\r\n"
      [] i.shape = "spaced_fields" ->
             i.number.text \o " | " \o i.month.text \o " |" \o i.year.text
                   \o "\t| " \o i.cvv.text
      [] i.shape = "three_parts" ->
             i.number.text \o "|" \o i.month.text \o "|" \o i.year.text
      [] i.shape = "five_parts" ->
             i.number.text \o "|" \o i.month.text \o "|" \o i.year.text
                   \o "|" \o i.cvv.text \o "|" \o i.cvv.text
      [] i.shape = "no_separator" ->
             i.number.text \o i.month.text \o i.year.text \o i.cvv.text

\* A card line is parsed.
FromString ==
    /\ pc = "idle"
    /\ \E i \in CardInputs :
           /\ input' = <<i>>
           /\ text' = RenderCard(i)
           /\ result' = <<from_string(RenderCard(i))>>
    /\ op' = "from_string"
    /\ pc' = "parsed"
    /\ UNCHANGED <<registry, calls>>
    /\ UNCHANGED probe

\* The parsed card is written out again, by to_string or by Display.
Serialize ==
    /\ pc = "parsed"
    /\ result[1].ok
    /\ \E line \in {to_string(result[1].v), fmt(result[1].v)} : text' = line
    /\ op' = "to_string"
    /\ pc' = "serialized"
    /\ UNCHANGED utilities
    /\ UNCHANGED probe

\* The line that was written out is parsed.
Reparse ==
    /\ pc = "serialized"
    /\ result' = Append(result, from_string(text))
    /\ op' = "from_string"
    /\ pc' = "reparsed"
    /\ UNCHANGED <<text, input, registry, calls>>
    /\ UNCHANGED probe

\* The card is given up; the next line is read.
DropCard ==
    /\ pc \in {"parsed", "reparsed"}
    /\ op \in {"from_string"}
    /\ pc' = "idle"
    /\ op' = "none"
    /\ text' = ""
    /\ input' = <<>>
    /\ result' = <<>>
    /\ UNCHANGED <<registry, calls>>
    /\ UNCHANGED probe

CardNext ==
    \/ FromString
    \/ Serialize
    \/ Reparse
    \/ DropCard

CardSpec == Init /\ [][CardNext]_vars

(***************************************************************************)
(* Claims about Card (CardSpec).                                           *)
(***************************************************************************)
TwoDigits(s) == Len(s) = 2 /\ \A i \in 1..2 : CharAt(s, i) \in {"0", "1", "2", "3", "4", "5", "6", "7", "8", "9"}

\* The card the format describes for a line whose four fields are valid
CardOf(i) == Card(i.number.value, i.month.value, i.year.value, i.cvv.value)

\* NUMBER|MM|YY|CVV of the card the format describes
NormalLine(i) ==
    i.number.value \o "|" \o i.month.value \o "|" \o i.year.value \o "|" \o i.cvv.value

\* C11: for every accepted input, the serialisation of the parsed card is
\* NUMBER|MM|YY|CVV with a two-digit month and year; parsing it succeeds and
\* gives a card with the same fields, whose serialisation is the same line.
C11_ParseSerializeIsIdempotent ==
    /\ (pc \in {"serialized", "reparsed"} /\ op \in {"to_string", "from_string"}) =>
           /\ text = NormalLine(input[1])
           /\ TwoDigits(input[1].month.value)
           /\ TwoDigits(input[1].year.value)
    /\ (pc = "reparsed") =>
           /\ result[2].ok
           /\ result[2].v = result[1].v
           /\ to_string(result[2].v) = text
           /\ fmt(result[2].v) = text

C11_Witness ==
    /\ pc = "reparsed"
    /\ input[1].month.text = "6"
    /\ input[1].year.text = "2025"
    /\ input[1].number.text = "4532 1234-5678 9012"
    /\ input[1].shape = "spaced_fields"
    /\ text = "4532123456789012|06|25|123"
    /\ result[2] = Ok(Card("4532123456789012", "06", "25", "123"))

Digits == {"0", "1", "2", "3", "4", "5", "6", "7", "8", "9"}
OnlyDigits(s) == \A i \in 1..Len(s) : CharAt(s, i) \in Digits
MonthNames == {"01", "02", "03", "04", "05", "06", "07", "08", "09", "10", "11", "12"}

\* C12: a card returned by from_string has a number of 13 to 19 digits
\* (spaces and dashes removed), a month among 01..12, a two-digit year (of a
\* four-digit year, which must start with "20", the last two digits), and
\* a cvv of 3 or 4 digits.
C12_ParsedCardIsNormalised ==
    (pc = "parsed" /\ op = "from_string" /\ result[1].ok) =>
        LET card == result[1].v
            i    == input[1]
        IN  /\ OnlyDigits(card.number)
            /\ Len(card.number) >= 13 /\ Len(card.number) <= 19
            /\ card.number = i.number.value
            /\ card.month \in MonthNames
            /\ card.month = i.month.value
            /\ TwoDigits(card.year)
            /\ Len(i.year.text) = 4 =>
                   /\ SubSeq(i.year.text, 1, 2) = "20"
                   /\ card.year = SubSeq(i.year.text, 3, 4)
            /\ Len(i.year.text) # 4 => card.year = i.year.text
            /\ OnlyDigits(card.cvv)
            /\ Len(card.cvv) \in {3, 4}
            /\ card.cvv = i.cvv.text

C12_Witness ==
    /\ pc = "parsed"
    /\ op = "from_string"
    /\ text = " \t4532 1234-5678 9012|1|2025|1234\r\n"
    /\ result[1] = Ok(Card("4532123456789012", "01", "25", "1234"))

\* The outcome the card format gives a line: InvalidFormat unless it has
\* four parts, else the error of the first invalid field in the order
\* number, month, year, cvv, else the card.
ExpectedCard(i) ==
    IF i.shape \notin FourParts THEN Err("InvalidFormat")
    ELSE IF ~i.number.valid THEN Err("InvalidNumber")
    ELSE IF ~i.month.valid THEN Err("InvalidMonth")
    ELSE IF ~i.year.valid THEN Err("InvalidYear")
    ELSE IF ~i.cvv.valid THEN Err("InvalidCvv")
    ELSE Ok(CardOf(i))

CardErrors == {"InvalidFormat", "InvalidNumber", "InvalidMonth", "InvalidYear", "InvalidCvv"}

\* C13: from_string always returns; a line without exactly four parts is
\* InvalidFormat, and otherwise the first failing check in the order
\* number, month, year, cvv gives the error.
C13_FirstFailingCheckIsTheError ==
    (pc = "parsed" /\ op = "from_string") =>
        /\ result[1] = ExpectedCard(input[1])
        /\ ~result[1].ok => result[1].v \in CardErrors

C13_Witness ==
    /\ pc = "parsed"
    /\ op = "from_string"
    /\ text = "4532123456789012|13|1925|12"
    /\ result[1] = Err("InvalidMonth")

(***************************************************************************)
(* utils/validators.rs: the Luhn check, the Luhn check digit and the card  *)
(* brand of a BIN.  An Option is <<>> (None) or <<x>> (Some(x)).           *)
(***************************************************************************)
\* chars().filter(|c| c.is_ascii_digit()): the digits of s, in order
RECURSIVE DigitsRange(_, _, _)
DigitsRange(s, lo, hi) ==
    IF lo > hi THEN ""
    ELSE IF lo = hi THEN (IF IsDigit(CharAt(s, lo)) THEN CharAt(s, lo) ELSE "")
    ELSE LET mid == (lo + hi) \div 2
         IN  DigitsRange(s, lo, mid) \o DigitsRange(s, mid + 1, hi)

ascii_digits(s) == DigitsRange(s, 1, Len(s))

\* for &digit in digits.iter().rev(): the sum after the digits i, i-1, .. 1,
\* every second one doubled (and 9 taken off a double above 9)
RECURSIVE LuhnLoop(_, _, _, _)
LuhnLoop(digits, i, sum, double) ==
    IF i = 0 THEN sum
    ELSE LET digit   == DigitValue(CharAt(digits, i))
             doubled == IF digit * 2 > 9 THEN digit * 2 - 9 ELSE digit * 2
             value   == IF double THEN doubled ELSE digit
         IN  LuhnLoop(digits, i - 1, sum + value, ~double)

\* validate_luhn that starts by doubling the last digit
validate_luhn_double_first(card_number) ==
    LET digits == ascii_digits(card_number)
    IN  IF digits = "" THEN FALSE
        ELSE LuhnLoop(digits, Len(digits), 0, TRUE) % 10 = 0

\* validate_luhn
validate_luhn(card_number) ==
    LET digits == ascii_digits(card_number)
    IN  IF digits = "" THEN FALSE
        ELSE LuhnLoop(digits, Len(digits), 0, FALSE) % 10 = 0

\* calculate_luhn_digit that takes the sum itself for the check digit
calculate_luhn_digit_sum(partial) ==
    LET digits == ascii_digits(partial)
    IN  IF digits = "" THEN <<>>
        ELSE <<LuhnLoop(digits, Len(digits), 0, TRUE) % 10>>

\* calculate_luhn_digit
calculate_luhn_digit(partial) ==
    LET digits == ascii_digits(partial)
    IN  IF digits = "" THEN <<>>
        ELSE <<(LuhnLoop(digits, Len(digits), 0, TRUE) * 9) % 10>>

\* bin.chars().take(n).collect()
take(s, n) == SubSeq(s, 1, IF Len(s) < n THEN Len(s) ELSE n)

\* str::parse::<u32>() of a text of at most four characters (no value of
\* that length is above u32::MAX): <<n>> for Ok(n), <<>> for Err
RECURSIVE ParseU32From(_, _, _)
ParseU32From(s, i, acc) ==
    IF i > Len(s) THEN <<acc>>
    ELSE IF ~IsDigit(CharAt(s, i)) THEN <<>>
    ELSE ParseU32From(s, i + 1, acc * 10 + DigitValue(CharAt(s, i)))

parse_u32(s) ==
    LET digits == IF starts_with(s, "+") THEN SubSeq(s, 2, Len(s)) ELSE s
    IN  IF digits = "" THEN <<>> ELSE ParseU32From(digits, 1, 0)

\* (lo..=hi).contains(&num) for the value of a parse, false for Err
InRange(parsed, lo, hi) == parsed # <<>> /\ parsed[1] >= lo /\ parsed[1] <= hi

Rule(brand, holds) == [brand |-> brand, holds |-> holds]

\* The brand rules with 35 counted as Diners Club as well
rules_diners_35(bin) ==
    LET first_digit == take(bin, 1)
        first_two   == take(bin, 2)
        first_four  == take(bin, 4)
    IN  << Rule("Visa", first_digit = "4"),
           Rule("Mastercard", \/ InRange(parse_u32(first_two), 51, 55)
                              \/ InRange(parse_u32(first_two), 2221, 2720)),
           Rule("American Express", first_two = "34" \/ first_two = "37"),
           Rule("Discover", first_two = "65" \/ first_four = "6011"),
           Rule("JCB", InRange(parse_u32(first_four), 3528, 3589)),
           Rule("Diners Club", first_two \in {"36", "38", "30", "35"}),
           Rule("UnionPay", first_two = "62") >>

\* The brand rules of detect_card_brand, in the order they are tried
rules(bin) ==
    LET first_digit == take(bin, 1)
        first_two   == take(bin, 2)
        first_four  == take(bin, 4)
    IN  << Rule("Visa", first_digit = "4"),
           Rule("Mastercard", \/ InRange(parse_u32(first_two), 51, 55)
                              \/ InRange(parse_u32(first_two), 2221, 2720)),
           Rule("American Express", first_two = "34" \/ first_two = "37"),
           Rule("Discover", first_two = "65" \/ first_four = "6011"),
           Rule("JCB", InRange(parse_u32(first_four), 3528, 3589)),
           Rule("Diners Club", first_two = "36" \/ first_two = "38" \/ first_two = "30"),
           Rule("UnionPay", first_two = "62") >>

\* detect_card_brand: the first rule that holds gives the brand
detect_card_brand(bin) ==
    LET holding == {k \in 1..Len(rules(bin)) : rules(bin)[k].holds}
    IN  IF bin = "" THEN "Unknown"
        ELSE IF holding = {} THEN "Unknown"
        ELSE rules(bin)[Least(holding)].brand

(***************************************************************************)
(* The numbers, partial numbers and BINs given to the validators.          *)
(***************************************************************************)
MaxPartial == 3

\* The texts of at most n digits
RECURSIVE DigitStrings(_)
DigitStrings(n) ==
    IF n = 0 THEN {""}
    ELSE LET shorter == DigitStrings(n - 1)
         IN  shorter \cup {s \o DigitChar(d) : s \in shorter, d \in 0..9}

\* The card numbers of the Luhn tests
TestNumbers == {"4532015112830366", "5425233430109903", "374245455400126"}

\* A number as given; or a number with the digit at one place changed
LuhnInput(base, at, digit) == [base |-> base, at |-> at, digit |-> digit]

LuhnInputs ==
    {LuhnInput(n, 0, 0) : n \in TestNumbers \cup
         {"4532015112830367", "1234567890123456", "4532 0151 1283 0366", "", "0", "----"}}
    \cup {i \in [base : TestNumbers, at : 1..16, digit : 0..9] :
              /\ i.at <= Len(i.base)
              /\ DigitChar(i.digit) # CharAt(i.base, i.at)}

RenderNumber(i) ==
    IF i.at = 0 THEN i.base
    ELSE SubSeq(i.base, 1, i.at - 1) \o DigitChar(i.digit)
             \o SubSeq(i.base, i.at + 1, Len(i.base))

Partials ==
    DigitStrings(MaxPartial)
    \cup {"453201511283036", "542523343010990", "37424545540012", "4532 0151-1283", "-", "x"}

\* A BIN: its leading digits, and what follows them
Bin(digits, suffix) == [digits |-> digits, suffix |-> suffix]

DigitSeqs(n) == UNION {[1..k -> 0..9] : k \in 0..n}

Bins ==
    {Bin(ds, "") : ds \in DigitSeqs(4)}
    \cup {Bin(ds, "00") : ds \in [1..4 -> 0..9]}
    \cup {Bin(ds, "x") : ds \in DigitSeqs(2)}

RECURSIVE RenderDigits(_)
RenderDigits(ds) ==
    IF ds = <<>> THEN "" ELSE DigitChar(Head(ds)) \o RenderDigits(Tail(ds))

RenderBin(b) == RenderDigits(b.digits) \o b.suffix

\* A card number is checked.
ValidateLuhn ==
    /\ pc = "idle"
    /\ \E i \in LuhnInputs :
           /\ input' = <<i>>
           /\ text' = RenderNumber(i)
           /\ result' = <<validate_luhn(RenderNumber(i))>>
    /\ op' = "validate_luhn"
    /\ pc' = "validated"
    /\ UNCHANGED <<registry, calls>>
    /\ UNCHANGED probe

\* The check digit of a partial number is computed.
CalculateLuhnDigit ==
    /\ pc = "idle"
    /\ \E p \in Partials :
           /\ input' = <<[partial |-> p]>>
           /\ text' = p
           /\ result' = <<calculate_luhn_digit(p)>>
    /\ op' = "calculate_luhn_digit"
    /\ pc' = "calculated"
    /\ UNCHANGED <<registry, calls>>
    /\ UNCHANGED probe

\* The check digit is appended to the partial number and the number checked
\* (as the card generator does).
ValidateCompleted ==
    /\ pc = "calculated"
    /\ result[1] # <<>>
    /\ text' = text \o DigitChar(result[1][1])
    /\ result' = Append(result, validate_luhn(text \o DigitChar(result[1][1])))
    /\ op' = "validate_luhn"
    /\ pc' = "completed"
    /\ UNCHANGED <<input, registry, calls>>
    /\ UNCHANGED probe

\* The brand of a BIN is looked up.
DetectCardBrand ==
    /\ pc = "idle"
    /\ \E b \in Bins :
           /\ input' = <<b>>
           /\ text' = RenderBin(b)
           /\ result' = <<detect_card_brand(RenderBin(b))>>
    /\ op' = "detect_card_brand"
    /\ pc' = "detected"
    /\ UNCHANGED <<registry, calls>>
    /\ UNCHANGED probe

ValidatorNext ==
    \/ ValidateLuhn
    \/ CalculateLuhnDigit
    \/ ValidateCompleted
    \/ DetectCardBrand

ValidatorSpec == Init /\ [][ValidatorNext]_vars

(***************************************************************************)
(* Claims about the validators (ValidatorSpec).                            *)
(***************************************************************************)
\* C14: validate_luhn holds for the three test numbers and fails for every
\* number obtained from one of them by changing one digit to another digit.
C14_LuhnDetectsSingleDigitChanges ==
    (pc = "validated" /\ op = "validate_luhn" /\ input[1].base \in TestNumbers) =>
        result[1] = (input[1].at = 0)

C14_Witness ==
    /\ pc = "validated"
    /\ op = "validate_luhn"
    /\ input[1] = LuhnInput("374245455400126", 1, 8)
    /\ text = "874245455400126"
    /\ result[1] = FALSE

\* C15: for every text p of digits, calculate_luhn_digit(p) is a digit, and p
\* followed by that digit passes validate_luhn.
C15_CheckDigitCompletesTheNumber ==
    /\ (pc = "calculated" /\ op = "calculate_luhn_digit"
            /\ input[1].partial # "" /\ OnlyDigits(input[1].partial)) =>
           /\ result[1] # <<>>
           /\ result[1][1] \in 0..9
    /\ (pc = "completed") =>
           /\ text = input[1].partial \o DigitChar(result[1][1])
           /\ result[2] = TRUE

C15_Witness ==
    /\ pc = "completed"
    /\ input[1].partial = "453201511283036"
    /\ result[1] = <<6>>
    /\ text = "4532015112830366"
    /\ result[2] = TRUE

\* The number the first n digits of a BIN spell, when it has that many
RECURSIVE Spelled(_, _)
Spelled(ds, n) == IF n = 0 THEN 0 ELSE Spelled(ds, n - 1) * 10 + ds[n]

FirstDigits(b, n, lo, hi) ==
    Len(b.digits) >= n /\ Spelled(b.digits, n) >= lo /\ Spelled(b.digits, n) <= hi

\* The brand table as stated, first match wins
BrandTable(b) ==
    IF FirstDigits(b, 1, 4, 4) THEN "Visa"
    ELSE IF FirstDigits(b, 2, 51, 55) \/ FirstDigits(b, 4, 2221, 2720) THEN "Mastercard"
    ELSE IF FirstDigits(b, 2, 34, 34) \/ FirstDigits(b, 2, 37, 37) THEN "American Express"
    ELSE IF FirstDigits(b, 2, 65, 65) \/ FirstDigits(b, 4, 6011, 6011) THEN "Discover"
    ELSE IF FirstDigits(b, 4, 3528, 3589) THEN "JCB"
    ELSE IF FirstDigits(b, 2, 36, 36) \/ FirstDigits(b, 2, 38, 38)
                \/ FirstDigits(b, 2, 30, 30) THEN "Diners Club"
    ELSE IF FirstDigits(b, 2, 62, 62) THEN "UnionPay"
    ELSE "Unknown"

\* C16: detect_card_brand gives every BIN the brand of the ordered table:
\* 4 -> Visa; 51..55 or 2221..2720 -> Mastercard; 34/37 -> American
\* Express; 65 or 6011 -> Discover; 3528..3589 -> JCB; 36/38/30 -> Diners
\* Club; 62 -> UnionPay; anything else, and the empty BIN, -> Unknown.
C16_BrandFollowsTheTable ==
    (pc = "detected" /\ op = "detect_card_brand") =>
        result[1] = BrandTable(input[1])

\* Outside the Mastercard 2-series, detect_card_brand follows the table
C16_BrandFollowsTheTableBut2Series ==
    (pc = "detected" /\ op = "detect_card_brand"
         /\ ~FirstDigits(input[1], 4, 2221, 2720)) =>
        result[1] = BrandTable(input[1])

\* The 2-series BIN 2221 is given no brand
C16_Witness2Series ==
    /\ pc = "detected"
    /\ op = "detect_card_brand"
    /\ text = "2221"
    /\ result[1] = "Unknown"

\* The rules of detect_card_brand that hold for the BIN
Holding == {k \in 1..Len(rules(text)) : rules(text)[k].holds}

\* The brands whose stated range holds the BIN
StatedBrands(b) ==
    {brand \in {"Visa", "Mastercard", "American Express", "Discover", "JCB",
                "Diners Club", "UnionPay"} :
        \/ brand = "Visa" /\ FirstDigits(b, 1, 4, 4)
        \/ brand = "Mastercard"
               /\ (FirstDigits(b, 2, 51, 55) \/ FirstDigits(b, 4, 2221, 2720))
        \/ brand = "American Express"
               /\ (FirstDigits(b, 2, 34, 34) \/ FirstDigits(b, 2, 37, 37))
        \/ brand = "Discover"
               /\ (FirstDigits(b, 2, 65, 65) \/ FirstDigits(b, 4, 6011, 6011))
        \/ brand = "JCB" /\ FirstDigits(b, 4, 3528, 3589)
        \/ brand = "Diners Club"
               /\ (FirstDigits(b, 2, 36, 36) \/ FirstDigits(b, 2, 38, 38)
                       \/ FirstDigits(b, 2, 30, 30))
        \/ brand = "UnionPay" /\ FirstDigits(b, 2, 62, 62)}

\* C17: no BIN satisfies the predicate of more than one brand rule (as
\* coded, and as stated), so the brand returned is the brand of the rule
\* that holds whatever the order the rules are tried in (Unknown when none
\* holds).
C17_BrandRulesAreExclusive ==
    (pc = "detected" /\ op = "detect_card_brand") =>
        /\ Cardinality(Holding) <= 1
        /\ Cardinality(StatedBrands(input[1])) <= 1
        /\ \A k \in Holding : result[1] = rules(text)[k].brand
        /\ Holding = {} => result[1] = "Unknown"

C17_Witness ==
    /\ pc = "detected"
    /\ op = "detect_card_brand"
    /\ text = "352800"
    /\ Holding = {5}
    /\ result[1] = "JCB"

(***************************************************************************)
(* gateways/traits.rs: GatewayRegistry.  `registry` is its gateways field, *)
(* `calls` the gateways handed to register so far, in order.               *)
(***************************************************************************)
MaxGateways == 3

\* GatewayInfo: gateways may share a name and differ in their site
GatewayNames == {"Stripe", "Braintree"}
GatewaySites == {"shop.example.com", "give.example.org"}
Gateways == [name : GatewayNames, site : GatewaySites]

\* The names looked up: those of the gateways and one of no gateway
LookupNames == GatewayNames \cup {"Nonexistent"}

\* GatewayRegistry::new
GatewayRegistry_new == <<>>

\* register that puts the gateway in the place of one with the same name
register_replacing(gateways, gateway) ==
    LET same == {i \in 1..Len(gateways) : gateways[i].name = gateway.name}
    IN  IF same = {} THEN Append(gateways, gateway)
        ELSE [gateways EXCEPT ![Least(same)] = gateway]

\* GatewayRegistry::register
GatewayRegistry_register(gateways, gateway) == Append(gateways, gateway)

\* get that returns the last gateway of the name
get_last(gateways, name) ==
    LET same == {i \in 1..Len(gateways) : gateways[i].name = name}
    IN  IF same = {} THEN <<>>
        ELSE <<gateways[CHOOSE i \in same : \A j \in same : j <= i]>>

\* GatewayRegistry::get: iter().find(|g| g.name() == name)
GatewayRegistry_get(gateways, name) ==
    LET same == {i \in 1..Len(gateways) : gateways[i].name = name}
    IN  IF same = {} THEN <<>> ELSE <<gateways[Least(same)]>>

\* GatewayRegistry::all
GatewayRegistry_all(gateways) == gateways

\* GatewayRegistry::count
GatewayRegistry_count(gateways) == Len(gateways)

\* A gateway is registered.
Register ==
    /\ Len(registry) < MaxGateways
    /\ \E g \in Gateways :
           /\ registry' = GatewayRegistry_register(registry, g)
           /\ calls' = Append(calls, g)
    /\ op' = "register"
    /\ text' = ""
    /\ result' = <<>>
    /\ UNCHANGED <<pc, input>>
    /\ UNCHANGED probe

\* A gateway is looked up by name.
Get ==
    /\ \E name \in LookupNames :
           /\ text' = name
           /\ result' = <<GatewayRegistry_get(registry, name)>>
    /\ op' = "get"
    /\ UNCHANGED <<pc, input, registry, calls>>
    /\ UNCHANGED probe

\* The gateways are listed.
All ==
    /\ result' = <<GatewayRegistry_all(registry)>>
    /\ op' = "all"
    /\ text' = ""
    /\ UNCHANGED <<pc, input, registry, calls>>
    /\ UNCHANGED probe

\* The gateways are counted.
Count ==
    /\ result' = <<GatewayRegistry_count(registry)>>
    /\ op' = "count"
    /\ text' = ""
    /\ UNCHANGED <<pc, input, registry, calls>>
    /\ UNCHANGED probe

RegistryNext ==
    \/ Register
    \/ Get
    \/ All
    \/ Count

RegistrySpec == Init /\ [][RegistryNext]_vars

(***************************************************************************)
(* Claims about the registry (RegistrySpec).                               *)
(***************************************************************************)
\* The register calls made so far that gave a gateway of the name
CallsNamed(name) == {i \in 1..Len(calls) : calls[i].name = name}

\* What count(), all() and get() return is what the register calls made
\* so far say
ReadsTellTheCalls ==
    /\ op = "count" => result[1] = Len(calls)
    /\ op = "all" => result[1] = calls
    /\ op = "get" => (result[1] # <<>> <=> CallsNamed(text) # {})
    /\ op = "get" /\ result[1] # <<>> => result[1][1].name = text

\* get, all and count leave the registry as it is
ReadsChangeNothing ==
    op' \in {"get", "all", "count"} => registry' = registry /\ calls' = calls

\* count never goes down, and a name that resolves keeps resolving
NothingIsRemoved ==
    /\ GatewayRegistry_count(registry') >= GatewayRegistry_count(registry)
    /\ \A name \in LookupNames :
           GatewayRegistry_get(registry, name) # <<>> =>
               GatewayRegistry_get(registry', name) # <<>>

\* C18: after any sequence of register calls, count() is the number of
\* calls, all() lists the gateways in registration order, and get(name)
\* finds a gateway exactly when one of that name was registered; the reads
\* leave the registry unchanged; count never decreases and a name that
\* resolves keeps resolving.
C18_RegistryTellsTheRegisterCalls ==
    /\ []ReadsTellTheCalls
    /\ [][ReadsChangeNothing]_vars
    /\ [][NothingIsRemoved]_vars

C18_Witness ==
    /\ op = "get"
    /\ text = "Braintree"
    /\ Len(calls) = 3
    /\ calls[1].name = "Stripe"
    /\ calls[2].name = "Braintree"
    /\ calls[3].name = "Stripe"
    /\ result[1] = <<calls[2]>>

\* get(name) returns the gateway that was registered first under the name
FirstRegisteredWins ==
    (op = "get" /\ CallsNamed(text) # {}) =>
        result[1] = <<calls[Least(CallsNamed(text))]>>

\* A later register changes no lookup that already resolved
LaterRegisterChangesNoLookup ==
    \A name \in LookupNames :
        GatewayRegistry_get(registry, name) # <<>> =>
            GatewayRegistry_get(registry', name) = GatewayRegistry_get(registry, name)

\* Every register call is counted, duplicates of a name too
DuplicatesAreCounted == GatewayRegistry_count(registry) = Len(calls)

\* C19: of several gateways registered under one name, get(name) returns
\* the first-registered one; a later register never changes the gateway
\* that get(name) returns for a name that already resolved; count() counts
\* every duplicate.
C19_FirstRegisteredGatewayWins ==
    /\ [](FirstRegisteredWins /\ DuplicatesAreCounted)
    /\ [][LaterRegisterChangesNoLookup]_vars

C19_Witness ==
    /\ op = "get"
    /\ text = "Stripe"
    /\ Len(calls) = 2
    /\ calls[1] = [name |-> "Stripe", site |-> "give.example.org"]
    /\ calls[2] = [name |-> "Stripe", site |-> "shop.example.com"]
    /\ result[1] = <<calls[1]>>
    /\ GatewayRegistry_count(registry) = 2

(***************************************************************************)
(* services/token_manager.rs: BraintreeTokenManager::parse_client_token.   *)
(* Bytes are numbers 0..255.                                               *)
(***************************************************************************)
Base64Alphabet == "ABCDEFGHIJKLMNOPQRSTUVWXYZabcdefghijklmnopqrstuvwxyz0123456789+/"

\* The printable ASCII characters U+0020 .. U+005F and U+0061 .. U+007E
PrintableLow == " !\"#$%&'()*+,-./0123456789:;<=>?@ABCDEFGHIJKLMNOPQRSTUVWXYZ[\\]^_"
PrintableHigh == "abcdefghijklmnopqrstuvwxyz{|}~"

\* The value of a base64 symbol, -1 for a character outside the alphabet
SymbolValue(c) == find(Base64Alphabet, c) - 1

\* general_purpose::STANDARD.decode: the alphabet above, canonical padding
\* required, no trailing bits allowed
decode(s) ==
    LET n    == Len(s)
        pad  == IF n >= 2 /\ SubSeq(s, n - 1, n) = "==" THEN 2
                ELSE IF n >= 1 /\ CharAt(s, n) = "=" THEN 1 ELSE 0
        body == n - pad
        v(i) == IF i <= body THEN SymbolValue(CharAt(s, i)) ELSE 0
        ByteAt(k) ==
            LET q == 4 * ((k - 1) \div 3)
                r == (k - 1) % 3
            IN  CASE r = 0 -> v(q + 1) * 4 + v(q + 2) \div 16
                  [] r = 1 -> (v(q + 2) % 16) * 16 + v(q + 3) \div 4
                  [] r = 2 -> (v(q + 3) % 4) * 64 + v(q + 4)
    IN  IF n % 4 # 0 THEN Err("base64")
        ELSE IF \E i \in 1..body : SymbolValue(CharAt(s, i)) < 0 THEN Err("base64")
        ELSE IF pad = 1 /\ v(body) % 4 # 0 THEN Err("base64")
        ELSE IF pad = 2 /\ v(body) % 16 # 0 THEN Err("base64")
        ELSE Ok([k \in 1..((n \div 4) * 3 - pad) |-> ByteAt(k)])

\* The number of bytes of the character a byte starts (0 when it starts none)
Utf8Width(b) ==
    IF b < 128 THEN 1
    ELSE IF b >= 194 /\ b <= 223 THEN 2
    ELSE IF b >= 224 /\ b <= 239 THEN 3
    ELSE IF b >= 240 /\ b <= 244 THEN 4
    ELSE 0

IsContinuation(b) == b >= 128 /\ b <= 191

\* The byte at i starts a well-formed character
StartsChar(bytes, i) ==
    LET w == Utf8Width(bytes[i])
    IN  /\ w >= 1
        /\ i + w - 1 <= Len(bytes)
        /\ \A j \in (i + 1)..(i + w - 1) : IsContinuation(bytes[j])
        /\ bytes[i] = 224 => bytes[i + 1] >= 160
        /\ bytes[i] = 237 => bytes[i + 1] <= 159
        /\ bytes[i] = 240 => bytes[i + 1] >= 144
        /\ bytes[i] = 244 => bytes[i + 1] <= 143

\* The byte at i belongs to a character started before it
ContinuesChar(bytes, i) ==
    /\ IsContinuation(bytes[i])
    /\ \E j \in 1..(i - 1) :
           /\ i - j < Utf8Width(bytes[j])
           /\ StartsChar(bytes, j)
           /\ \A k \in (j + 1)..i : IsContinuation(bytes[k])

\* The character of a byte of ASCII; a character the strings of the model
\* have no sign for (a control character, U+0060, or one outside ASCII) is
\* written as "~", a character with no meaning to the JSON reader
CharOf(b) ==
    IF b >= 32 /\ b <= 95 THEN CharAt(PrintableLow, b - 31)
    ELSE IF b >= 97 /\ b <= 126 THEN CharAt(PrintableHigh, b - 96)
    ELSE IF b = 9 THEN "\t"
    ELSE IF b = 10 THEN "\n"
    ELSE IF b = 13 THEN "\r"
    ELSE "~"

RECURSIVE TextRange(_, _, _)
TextRange(bytes, lo, hi) ==
    IF lo > hi THEN ""
    ELSE IF lo = hi THEN (IF IsContinuation(bytes[lo]) THEN "" ELSE CharOf(bytes[lo]))
    ELSE LET mid == (lo + hi) \div 2
         IN  TextRange(bytes, lo, mid) \o TextRange(bytes, mid + 1, hi)

\* String::from_utf8
from_utf8(bytes) ==
    IF \A i \in 1..Len(bytes) : StartsChar(bytes, i) \/ ContinuesChar(bytes, i)
    THEN Ok(TextRange(bytes, 1, Len(bytes)))
    ELSE Err("utf8")

BraintreeClientToken(fingerprint, merchant, environment) ==
    [authorization_fingerprint |-> fingerprint,
     merchant_id               |-> merchant,
     environment               |-> environment]

\* parse_client_token that fails on a member that is no string
parse_client_token_requires_members(encoded_token) ==
    LET decoded  == decode(encoded_token)
        json_str == from_utf8(decoded.v)
        value    == from_str(json_str.v)
    IN  IF ~decoded.ok THEN Err("base64")
        ELSE IF ~json_str.ok THEN Err("utf8")
        ELSE IF ~value.ok THEN Err("json")
        ELSE IF \E key \in {"authorizationFingerprint", "merchantId", "environment"} :
                    as_str(index(value.v, key)) = <<>>
             THEN Err("member")
        ELSE Ok(BraintreeClientToken(
                    unwrap_or(as_str(index(value.v, "authorizationFingerprint")), ""),
                    unwrap_or(as_str(index(value.v, "merchantId")), ""),
                    unwrap_or(as_str(index(value.v, "environment")), "")))

\* BraintreeTokenManager::parse_client_token
parse_client_token(encoded_token) ==
    LET decoded  == decode(encoded_token)
        json_str == from_utf8(decoded.v)
        value    == from_str(json_str.v)
    IN  IF ~decoded.ok THEN Err("base64")
        ELSE IF ~json_str.ok THEN Err("utf8")
        ELSE IF ~value.ok THEN Err("json")
        ELSE Ok(BraintreeClientToken(
                    unwrap_or(as_str(index(value.v, "authorizationFingerprint")), ""),
                    unwrap_or(as_str(index(value.v, "merchantId")), ""),
                    unwrap_or(as_str(index(value.v, "environment")), "")))

(***************************************************************************)
(* The client tokens given to parse_client_token: what the token holds,    *)
(* and the base64 text it is sent as.                                      *)
(***************************************************************************)
\* The bytes of a text of ASCII
CodeOf(c) ==
    IF c = "\t" THEN 9 ELSE IF c = "\n" THEN 10 ELSE IF c = "\r" THEN 13
    ELSE IF contains(PrintableLow, c) THEN find(PrintableLow, c) + 31
    ELSE find(PrintableHigh, c) + 96

BytesOf(s) == [i \in 1..Len(s) |-> CodeOf(CharAt(s, i))]

\* base64 of the bytes, padded
RECURSIVE EncodeRange(_, _, _)
EncodeRange(bytes, lo, hi) ==
    IF lo > hi THEN ""
    ELSE IF lo < hi THEN
         LET mid == (lo + hi) \div 2
         IN  EncodeRange(bytes, lo, mid) \o EncodeRange(bytes, mid + 1, hi)
    ELSE LET k    == 3 * (lo - 1)
             have == Len(bytes) - k
             b(i) == IF k + i <= Len(bytes) THEN bytes[k + i] ELSE 0
             sym(x) == CharAt(Base64Alphabet, x + 1)
         IN  sym(b(1) \div 4)
             \o sym((b(1) % 4) * 16 + b(2) \div 16)
             \o (IF have >= 2 THEN sym((b(2) % 16) * 4 + b(3) \div 64) ELSE "=")
             \o (IF have >= 3 THEN sym(b(3) % 64) ELSE "=")

encode(bytes) == EncodeRange(bytes, 1, (Len(bytes) + 2) \div 3)

\* A member of the token: absent, a string, or a value that is no string
Member(kind, value) == [kind |-> kind, value |-> value]

Members(value) ==
    {Member("absent", ""), Member("string", value), Member("string", ""),
     Member("number", "42"), Member("null", "null")}

MemberText(key, m) ==
    IF m.kind = "string" THEN Quote(key) \o ": " \o Quote(m.value)
    ELSE Quote(key) \o ": " \o m.value

ClientToken(shape, fingerprint, merchant, environment) ==
    [shape |-> shape, fingerprint |-> fingerprint, merchant |-> merchant,
     environment |-> environment]

\* Tokens that are JSON, and tokens that are no base64, no UTF-8 or no JSON
JsonShapes == {"object", "array", "number", "string", "null"}
BrokenShapes ==
    {"foreign_symbol", "line_break", "no_padding", "trailing_bits", "one_symbol",
     "bad_lead_byte", "cut_character", "not_json", "cut_json", "empty"}

ClientTokens ==
    {ClientToken("object", f, m, e) :
         f \in Members("fp|2024"), m \in Members("merchant_7"), e \in Members("sandbox")}
    \cup {ClientToken(s, Member("string", "fp|2024"), Member("absent", ""),
                      Member("string", "sandbox")) :
              s \in (JsonShapes \ {"object"}) \cup BrokenShapes}

ObjectText(t) ==
    LET present == SelectSeq(<< <<"authorizationFingerprint", t.fingerprint>>,
                                <<"version", Member("number", "2")>>,
                                <<"merchantId", t.merchant>>,
                                <<"environment", t.environment>> >>,
                             LAMBDA kv : kv[2].kind # "absent")
        Join[i \in 0..Len(present)] ==
            IF i = 0 THEN ""
            ELSE Join[i - 1] \o (IF i = 1 THEN "" ELSE ", ")
                     \o MemberText(present[i][1], present[i][2])
    IN  "{" \o Join[Len(present)] \o "}"

\* The text the token holds, for the tokens that hold text
TokenText(t) ==
    CASE t.shape = "array"    -> "[" \o ObjectText(t) \o "]"
      [] t.shape = "number"   -> "7"
      [] t.shape = "string"   -> Quote("merchantId")
      [] t.shape = "null"     -> "null"
      [] t.shape = "not_json" -> "authorizationFingerprint=fp"
      [] t.shape = "cut_json" -> SubSeq(ObjectText(t), 1, Len(ObjectText(t)) - 1)
      [] t.shape = "empty"    -> ""
      [] OTHER                -> ObjectText(t)

RenderToken(t) ==
    LET good == encode(BytesOf(TokenText(t)))
    IN  CASE t.shape = "foreign_symbol" -> "*" \o SubSeq(good, 2, Len(good))
          [] t.shape = "line_break"     -> good \o "\n"
          [] t.shape = "no_padding"     -> "e30"
          [] t.shape = "trailing_bits"  -> "e31="
          [] t.shape = "one_symbol"     -> good \o "e"
          [] t.shape = "bad_lead_byte"  -> encode(<<123, 255, 125>>)
          [] t.shape = "cut_character"  -> encode(<<34, 195, 34>>)
          [] OTHER                      -> good

\* A client token is parsed.
ParseClientToken ==
    /\ pc = "idle"
    /\ \E t \in ClientTokens :
           /\ input' = <<t>>
           /\ text' = RenderToken(t)
           /\ result' = <<parse_client_token(RenderToken(t))>>
    /\ op' = "parse_client_token"
    /\ pc' = "parsed"
    /\ UNCHANGED <<registry, calls>>
    /\ UNCHANGED probe

\* The token is put to use or given up.
DropToken ==
    /\ pc = "parsed"
    /\ op = "parse_client_token"
    /\ pc' = "idle"
    /\ op' = "none"
    /\ text' = ""
    /\ input' = <<>>
    /\ result' = <<>>
    /\ UNCHANGED <<registry, calls>>
    /\ UNCHANGED probe

TokenNext ==
    \/ ParseClientToken
    \/ DropToken

TokenSpec == Init /\ [][TokenNext]_vars

(***************************************************************************)
(* Claims about the client token (TokenSpec).                              *)
(***************************************************************************)
\* What is read of a member: its text when it is a string, else nothing
MemberRead(m) == IF m.kind = "string" THEN m.value ELSE ""

\* C20: parse_client_token fails only on a token that is no base64, no
\* UTF-8 or no JSON; on every token that decodes to JSON it succeeds, and
\* each of the three members that is absent or no string is read as "".
C20_TokenFailsOnlyOnDecoding ==
    (pc = "parsed" /\ op = "parse_client_token") =>
        LET t == input[1] IN
        /\ result[1].ok <=> t.shape \in JsonShapes
        /\ t.shape = "object" =>
               result[1] = Ok(BraintreeClientToken(MemberRead(t.fingerprint),
                                                   MemberRead(t.merchant),
                                                   MemberRead(t.environment)))
        /\ t.shape \in JsonShapes \ {"object"} =>
               result[1] = Ok(BraintreeClientToken("", "", ""))
        /\ t.shape \in {"foreign_symbol", "line_break", "no_padding",
                        "trailing_bits", "one_symbol"} => result[1] = Err("base64")
        /\ t.shape \in {"bad_lead_byte", "cut_character"} => result[1] = Err("utf8")
        /\ t.shape \in {"not_json", "cut_json", "empty"} => result[1] = Err("json")

C20_Witness ==
    /\ pc = "parsed"
    /\ op = "parse_client_token"
    /\ input[1] = ClientToken("object", Member("number", "42"), Member("absent", ""),
                              Member("string", "sandbox"))
    /\ result[1] = Ok(BraintreeClientToken("", "", "sandbox"))

(***************************************************************************)
(* services/token_manager.rs: the Stripe-id extraction helpers.            *)
(***************************************************************************)
\* \s of the regex crate, for the white space the model's texts hold
IsRegexSpace(c) == c \in {" ", "\t", "\n", "\r"}

\* The end of \s* from i on
SkipSpace(s, i) == Least({j \in i..Len(s) : ~IsRegexSpace(CharAt(s, j))} \cup {Len(s) + 1})

\* The capture of "id"\s*:\s*"(<prefix>[^"]+)" for a match that starts at
\* i: <<capture>>, or <<>> when there is no match at i
IdMatchAt(s, prefix, i) ==
    LET colon == SkipSpace(s, i + 4)
        open  == SkipSpace(s, colon + 1)
        from  == open + 1
        rest  == from + Len(prefix)
        close == FindFrom(s, "\"", rest)
    IN  IF /\ MatchAt(s, "\"id\"", i)
           /\ MatchAt(s, ":", colon)
           /\ MatchAt(s, "\"", open)
           /\ MatchAt(s, prefix, from)
           /\ close > rest
        THEN <<SubSeq(s, from, close - 1)>>
        ELSE <<>>

\* re.captures(text).and_then(|cap| cap.get(1)): the capture of the
\* leftmost match, <<>> for None
captures(s, prefix) ==
    LET hits == {i \in 1..Len(s) : IdMatchAt(s, prefix, i) # <<>>}
    IN  IF hits = {} THEN <<>> ELSE IdMatchAt(s, prefix, Least(hits))

\* extract_stripe_pm_id
extract_stripe_pm_id(response_text) ==
    LET json == from_str(response_text)
        id   == as_str(index(json.v, "id"))
    IN  IF json.ok /\ id # <<>> /\ starts_with(id[1], "pm_") THEN <<id[1]>>
        ELSE captures(response_text, "pm_")

\* extract_payment_intent
extract_payment_intent(response_text) ==
    LET json          == from_str(response_text)
        pi_id         == as_str(index(json.v, "id"))
        client_secret == as_str(index(json.v, "client_secret"))
    IN  IF ~json.ok THEN <<>>
        ELSE IF pi_id = <<>> THEN <<>>
        ELSE IF client_secret = <<>> THEN <<>>
        ELSE IF starts_with(pi_id[1], "pi_") THEN << <<pi_id[1], client_secret[1]>> >>
        ELSE <<>>

\* extract_stripe_source_id
extract_stripe_source_id(response_text) ==
    LET json == from_str(response_text)
        id   == as_str(index(json.v, "id"))
    IN  IF json.ok /\ id # <<>> /\ starts_with(id[1], "src_") THEN <<id[1]>>
        ELSE captures(response_text, "src_")

\* The Stripe responses given to the helpers: where the id stands, the
\* prefix and the rest of the id, and the client_secret beside it
StripeIdShapes ==
    {"json_top", "json_nested", "json_array", "json_id_number", "truncated",
     "embedded", "text"}

StripeIdPayloads ==
    [shape : StripeIdShapes, prefix : {"pm_", "pi_", "src_", "tok_"},
     tail : {"1234567890", ""}, secret : {"absent", "string", "number"}]

SecretText == "pi_1234567890_secret_Zx9"

IdMembers(p, id_text) ==
    << <<"id", id_text>> >>
    \o (CASE p.secret = "string" -> << <<"client_secret", Quote(SecretText)>> >>
          [] p.secret = "number" -> << <<"client_secret", "5">> >>
          [] OTHER -> <<>>)
    \o << <<"object", Quote("payment")>> >>

RenderStripeId(p) ==
    LET top == Obj(IdMembers(p, Quote(p.prefix \o p.tail)))
    IN  CASE p.shape = "json_top"       -> top
          [] p.shape = "json_nested"    -> "{\"livemode\": false, \"result\": " \o top \o "}"
          [] p.shape = "json_array"     -> "[" \o top \o "]"
          [] p.shape = "json_id_number" -> Obj(IdMembers(p, "17"))
          [] p.shape = "truncated"      -> SubSeq(top, 1, Len(top) - 1)
          [] p.shape = "embedded"       ->
                 "<script>var r = {\"id\" :\n \"" \o p.prefix \o p.tail \o "\""
                 \o (IF p.secret = "string"
                     THEN ", \"client_secret\" : \"" \o SecretText \o "\"" ELSE "")
                 \o "};</script>"
          [] p.shape = "text"           -> "payment failed"

\* A payment-method id is looked for in a Stripe response.
ExtractStripePmId ==
    /\ pc = "idle"
    /\ \E p \in StripeIdPayloads :
           /\ input' = <<p>>
           /\ text' = RenderStripeId(p)
           /\ result' = <<extract_stripe_pm_id(RenderStripeId(p))>>
    /\ op' = "extract_stripe_pm_id"
    /\ pc' = "extracted"
    /\ UNCHANGED <<registry, calls>>
    /\ UNCHANGED probe

\* A payment intent and its client secret are looked for.
ExtractPaymentIntent ==
    /\ pc = "idle"
    /\ \E p \in StripeIdPayloads :
           /\ input' = <<p>>
           /\ text' = RenderStripeId(p)
           /\ result' = <<extract_payment_intent(RenderStripeId(p))>>
    /\ op' = "extract_payment_intent"
    /\ pc' = "extracted"
    /\ UNCHANGED <<registry, calls>>
    /\ UNCHANGED probe

\* A source id is looked for.
ExtractStripeSourceId ==
    /\ pc = "idle"
    /\ \E p \in StripeIdPayloads :
           /\ input' = <<p>>
           /\ text' = RenderStripeId(p)
           /\ result' = <<extract_stripe_source_id(RenderStripeId(p))>>
    /\ op' = "extract_stripe_source_id"
    /\ pc' = "extracted"
    /\ UNCHANGED <<registry, calls>>
    /\ UNCHANGED probe

StripeIdNext ==
    \/ ExtractStripePmId
    \/ ExtractPaymentIntent
    \/ ExtractStripeSourceId

StripeIdSpec == Init /\ [][StripeIdNext]_vars

(***************************************************************************)
(* Claims about the Stripe-id helpers (StripeIdSpec).                      *)
(***************************************************************************)
\* The prefix a helper looks for
PrefixOf(helper) ==
    CASE helper = "extract_stripe_pm_id" -> "pm_"
      [] helper = "extract_payment_intent" -> "pi_"
      [] helper = "extract_stripe_source_id" -> "src_"

StripeIdHelpers ==
    {"extract_stripe_pm_id", "extract_payment_intent", "extract_stripe_source_id"}

\* The helper has what it needs beside the id: a payment intent needs its
\* client_secret
SiblingPresent(helper, p) == helper = "extract_payment_intent" => p.secret = "string"

\* The JSON stage finds the id: the text is a JSON object with a string id
\* of the helper's prefix
JsonStageFinds(helper, p) ==
    p.shape = "json_top" /\ p.prefix = PrefixOf(helper) /\ SiblingPresent(helper, p)

\* A scan of the raw text finds "id": "<prefix>..." (and the sibling)
ScanFinds(helper, p) ==
    /\ p.shape \in {"json_top", "json_nested", "json_array", "truncated", "embedded"}
    /\ p.prefix = PrefixOf(helper)
    /\ p.tail # ""
    /\ SiblingPresent(helper, p)

\* The id a helper returned (of a payment intent, the first of the pair)
IdReturned(helper, r) == IF helper = "extract_payment_intent" THEN r[1][1] ELSE r[1]

\* C21: each Stripe-id helper returns the prefixed id when the JSON field
\* id has it or, failing that, when a scan of the raw text finds it, and
\* returns nothing only when neither stage finds a prefixed id.
C21_EveryHelperFallsBackToAScan ==
    (pc = "extracted" /\ op \in StripeIdHelpers) =>
        /\ result[1] # <<>> <=>
               (JsonStageFinds(op, input[1]) \/ ScanFinds(op, input[1]))
        /\ result[1] # <<>> =>
               IdReturned(op, result[1]) = input[1].prefix \o input[1].tail

\* The payment-method and source helpers do fall back to the scan
C21_PmAndSourceFallBackToAScan ==
    (pc = "extracted" /\ op \in {"extract_stripe_pm_id", "extract_stripe_source_id"}) =>
        /\ result[1] # <<>> <=>
               (JsonStageFinds(op, input[1]) \/ ScanFinds(op, input[1]))
        /\ result[1] # <<>> =>
               IdReturned(op, result[1]) = input[1].prefix \o input[1].tail

\* A payment intent in text that is no JSON is not found
C21_WitnessNoScanForPaymentIntent ==
    /\ pc = "extracted"
    /\ op = "extract_payment_intent"
    /\ input[1].shape = "truncated"
    /\ input[1].prefix = "pi_"
    /\ input[1].tail = "1234567890"
    /\ input[1].secret = "string"
    /\ result[1] = <<>>


(***************************************************************************)
(* FieldScraper (services/field_scraper.rs): the nonce and hidden-field    *)
(* readers.  A HashMap is the set of its <<key, value>> pairs.             *)
(***************************************************************************)

\* Element::attr on an opening tag: the value of the first attribute of
\* that name, <<>> for None.  The attributes follow the tag name, separated
\* by spaces, each name="value" or a bare name (whose value is empty).
RECURSIVE AttrFrom(_, _, _)
AttrFrom(inner, i, name) ==
    LET a == SkipSpace(inner, i) IN
    IF a > Len(inner) THEN <<>>
    ELSE LET e      == Least({j \in a..Len(inner) : CharAt(inner, j) \in {" ", "="}}
                                 \cup {Len(inner) + 1})
             key    == SubSeq(inner, a, e - 1)
             q      == IF MatchAt(inner, "=\"", e)
                       THEN FindFrom(inner, "\"", e + 2) ELSE 0
             val    == IF q = 0 THEN "" ELSE SubSeq(inner, e + 2, q - 1)
             next   == IF q = 0 THEN e + 1 ELSE q + 1
         IN  IF key = name THEN <<val>> ELSE AttrFrom(inner, next, name)

attr(tok, name) == AttrFrom(tok.attrs, Len(tok.name) + 1, name)

\* HashMap::insert: the pair replaces the one the key had
insert(map, key, val) == {p \in map : p[1] # key} \cup {<<key, val>>}

\* Selector::parse of a selector that quotes the string: a quotation mark
\* inside the string ends it early and what follows does not parse.
QuotesCleanly(s) == ~contains(s, "\"")

\* The elements input[name="nonce_name"] selects, in document order
NamedInputs(document, nonce_name) ==
    {k \in 1..Len(document) :
        /\ document[k].k = "open"
        /\ document[k].name = "input"
        /\ attr(document[k], "name") = <<nonce_name>>}

\* The same selection narrowed to input[type="hidden"]
NamedHiddenInputs(document, nonce_name) ==
    {k \in NamedInputs(document, nonce_name) : attr(document[k], "type") = <<"hidden">>}

NonceNotFound(nonce_name) == "Nonce '" \o nonce_name \o "' not found in HTML"

\* FieldScraper::extract_wc_nonce reading hidden inputs only
extract_wc_nonce_hidden_only(html, nonce_name) ==
    LET document == parse_document(html)
        hits     == NamedHiddenInputs(document, nonce_name)
    IN  IF ~QuotesCleanly(nonce_name) THEN Err("Invalid selector")
        ELSE IF hits # {} /\ attr(document[Least(hits)], "value") # <<>>
        THEN Ok(attr(document[Least(hits)], "value")[1])
        ELSE Err(NonceNotFound(nonce_name))

\* FieldScraper::extract_wc_nonce
extract_wc_nonce(html, nonce_name) ==
    LET document == parse_document(html)
        hits     == NamedInputs(document, nonce_name)
    IN  IF ~QuotesCleanly(nonce_name) THEN Err("Invalid selector")
        ELSE IF hits # {} /\ attr(document[Least(hits)], "value") # <<>>
        THEN Ok(attr(document[Least(hits)], "value")[1])
        ELSE Err(NonceNotFound(nonce_name))

\* The loop of extract_multiple_nonces from the i-th name on
RECURSIVE NoncesFrom(_, _, _, _)
NoncesFrom(html, nonce_names, i, nonces) ==
    IF i > Len(nonce_names) THEN nonces
    ELSE LET value == extract_wc_nonce(html, nonce_names[i])
         IN  NoncesFrom(html, nonce_names, i + 1,
                 IF value.ok THEN insert(nonces, nonce_names[i], value.v) ELSE nonces)

\* FieldScraper::extract_multiple_nonces
extract_multiple_nonces(html, nonce_names) == NoncesFrom(html, nonce_names, 1, {})

\* The element at k is a descendant of a form element with that id
BelowForm(document, k, id) ==
    \E a \in 1..(k - 1) :
        /\ document[a].k = "open"
        /\ document[a].name = "form"
        /\ attr(document[a], "id") = <<id>>
        /\ CloseOf(document, a) > k

\* input[type="hidden"], or form#id input[type="hidden"] for Some(id)
HiddenInputSelected(document, k, form_id) ==
    /\ document[k].k = "open"
    /\ document[k].name = "input"
    /\ attr(document[k], "type") = <<"hidden">>
    /\ form_id # <<>> => BelowForm(document, k, form_id[1])

\* The loop of extract_hidden_fields from the k-th node on
RECURSIVE FieldsFrom(_, _, _, _)
FieldsFrom(document, form_id, k, fields) ==
    IF k > Len(document) THEN fields
    ELSE LET name  == attr(document[k], "name")
             value == attr(document[k], "value")
         IN  FieldsFrom(document, form_id, k + 1,
                 IF /\ HiddenInputSelected(document, k, form_id)
                    /\ name # <<>>
                    /\ value # <<>>
                 THEN insert(fields, name[1], value[1])
                 ELSE fields)

\* FieldScraper::extract_hidden_fields
extract_hidden_fields(html, form_id) ==
    FieldsFrom(parse_document(html), form_id, 1, {})

(***************************************************************************)
(* The pages handed to the scraper: a form with the id "checkout" holding  *)
(* up to MaxFields input elements, and at most one input after it.         *)
(***************************************************************************)
MaxFields == 2

InputField(type, name, value) == [type |-> type, name |-> name, value |-> value]

InputFields ==
    { InputField(<<"hidden">>, <<"nonce_a">>, <<"abc123">>),
      InputField(<<"hidden">>, <<"nonce_a">>, <<"zzz999">>),
      InputField(<<"hidden">>, <<"nonce_b">>, <<>>),
      InputField(<<"text">>,   <<"nonce_a">>, <<"typed">>),
      InputField(<<>>,         <<"nonce_b">>, <<"plain">>),
      InputField(<<"hidden">>, <<>>,          <<"anon">>) }

FieldLists(n) == UNION {[1..m -> InputFields] : m \in 0..n}

\* What follows the form: nothing, or one input element
TrailingFields ==
    { <<>>,
      <<InputField(<<"text">>, <<"nonce_a">>, <<"typed">>)>>,
      <<InputField(<<"hidden">>, <<"nonce_a">>, <<"zzz999">>)>> }

NoncePages == [inside : FieldLists(MaxFields), outside : TrailingFields]

NonceNames == {"nonce_a", "nonce_b", "nonce_c", "nonce\"x"}

NonceNameLists ==
    { <<>>, <<"nonce_a", "nonce_b">>,
      <<"nonce_b", "nonce_c", "nonce_a">>, <<"nonce_a", "nonce_a">>,
      <<"nonce\"x", "nonce_b">> }

FormIds == {<<>>, <<"checkout">>, <<"billing">>}

RenderAttr(name, v) == IF v = <<>> THEN "" ELSE " " \o name \o "=\"" \o v[1] \o "\""

RenderInput(f) ==
    "<input" \o RenderAttr("type", f.type) \o RenderAttr("name", f.name)
             \o RenderAttr("value", f.value) \o " />"

RECURSIVE RenderInputs(_)
RenderInputs(fs) ==
    IF fs = <<>> THEN "" ELSE RenderInput(Head(fs)) \o RenderInputs(Tail(fs))

RenderNoncePage(p) ==
    "<form id=\"checkout\">" \o RenderInputs(p.inside) \o "</form>"
        \o RenderInputs(p.outside)

\* A nonce is read from a page.
ExtractWcNonce ==
    /\ pc = "idle"
    /\ \E p \in NoncePages, n \in NonceNames :
           /\ input' = <<[page |-> p, nonce_name |-> n]>>
           /\ text' = RenderNoncePage(p)
           /\ result' = <<extract_wc_nonce(RenderNoncePage(p), n)>>
    /\ op' = "extract_wc_nonce"
    /\ pc' = "scraped"
    /\ UNCHANGED <<registry, calls>>
    /\ UNCHANGED probe

\* Several nonces are read from a page at once.
ExtractMultipleNonces ==
    /\ pc = "idle"
    /\ \E p \in NoncePages, ns \in NonceNameLists :
           /\ input' = <<[page |-> p, nonce_names |-> ns]>>
           /\ text' = RenderNoncePage(p)
           /\ result' = <<extract_multiple_nonces(RenderNoncePage(p), ns)>>
    /\ op' = "extract_multiple_nonces"
    /\ pc' = "scraped"
    /\ UNCHANGED <<registry, calls>>
    /\ UNCHANGED probe

\* The hidden fields of a page, or of one of its forms, are collected.
ExtractHiddenFields ==
    /\ pc = "idle"
    /\ \E p \in NoncePages, id \in FormIds :
           /\ input' = <<[page |-> p, form_id |-> id]>>
           /\ text' = RenderNoncePage(p)
           /\ result' = <<extract_hidden_fields(RenderNoncePage(p), id)>>
    /\ op' = "extract_hidden_fields"
    /\ pc' = "scraped"
    /\ UNCHANGED <<registry, calls>>
    /\ UNCHANGED probe

(***************************************************************************)
(* FieldScraper::extract_stripe_key and its helpers.                       *)
(***************************************************************************)

\* FieldScraper::extract_between
FieldScraper_extract_between(s, start, end) ==
    LET at        == find(s, start)
        start_idx == at + Len(start)
        end_idx   == IF at = 0 THEN 0 ELSE FindFrom(s, end, start_idx)
    IN  IF at = 0 \/ end_idx = 0 THEN <<>>
        ELSE <<SubSeq(s, start_idx, end_idx - 1)>>

AlphaNumerics ==
    "abcdefghijklmnopqrstuvwxyzABCDEFGHIJKLMNOPQRSTUVWXYZ0123456789"

\* [a-zA-Z0-9]
IsAlphaNumeric(c) == \E i \in 1..Len(AlphaNumerics) : CharAt(AlphaNumerics, i) = c

\* Regex::find for <prefix>[a-zA-Z0-9]+ : the leftmost match, as long as it
\* can be, <<>> for None
PatternFind(script, prefix) ==
    LET starts == {i \in 1..(Len(script) - Len(prefix)) :
                      /\ MatchAt(script, prefix, i)
                      /\ IsAlphaNumeric(CharAt(script, i + Len(prefix)))}
    IN  IF starts = {} THEN <<>>
        ELSE LET i    == Least(starts)
                 from == i + Len(prefix)
                 stop == Least({j \in from..Len(script) :
                                   ~IsAlphaNumeric(CharAt(script, j))}
                               \cup {Len(script) + 1})
             IN  <<SubSeq(script, i, stop - 1)>>

\* FieldScraper::extract_stripe_key_from_script
extract_stripe_key_from_script(script) ==
    IF PatternFind(script, "pk_live_") # <<>> THEN PatternFind(script, "pk_live_")
    ELSE PatternFind(script, "pk_test_")

KeySelectors ==
    << "[data-stripe-publishable-key]", "[data-key]", ".stripe-publishable-key" >>

\* The element matches the selector of the list
SelectsKey(tok, selector_str) ==
    /\ tok.k = "open"
    /\ CASE selector_str = "[data-stripe-publishable-key]" ->
                attr(tok, "data-stripe-publishable-key") # <<>>
         [] selector_str = "[data-key]" -> attr(tok, "data-key") # <<>>
         [] selector_str = ".stripe-publishable-key" ->
                HasClass(tok, "stripe-publishable-key")

\* Option::or_else
or_else(a, b) == IF a # <<>> THEN a ELSE b

\* One round of the selector loop: the key of the first element the
\* selector matches, <<>> when the round returns nothing
KeyOfSelector(document, selector_str) ==
    LET hits == {k \in 1..Len(document) : SelectsKey(document[k], selector_str)}
    IN  IF hits = {} THEN <<>>
        ELSE LET element == document[Least(hits)]
                 key     == or_else(attr(element, "data-stripe-publishable-key"),
                                    attr(element, "data-key"))
             IN  IF key # <<>> /\ starts_with(key[1], "pk_") THEN key ELSE <<>>

\* The selector loop from the i-th selector on
RECURSIVE DataKeyFrom(_, _)
DataKeyFrom(document, i) ==
    IF i > Len(KeySelectors) THEN <<>>
    ELSE IF KeyOfSelector(document, KeySelectors[i]) # <<>>
    THEN KeyOfSelector(document, KeySelectors[i])
    ELSE DataKeyFrom(document, i + 1)

\* The loop over the script elements from the k-th node on
RECURSIVE ScriptKeyFrom(_, _)
ScriptKeyFrom(document, k) ==
    IF k > Len(document) THEN <<>>
    ELSE IF /\ document[k].k = "open"
            /\ document[k].name = "script"
            /\ extract_stripe_key_from_script(element_text(document, k)) # <<>>
    THEN extract_stripe_key_from_script(element_text(document, k))
    ELSE ScriptKeyFrom(document, k + 1)

KeyNotFound == "Stripe publishable key not found"

\* FieldScraper::extract_stripe_key with the inline scripts scanned before
\* the data attributes
extract_stripe_key_scripts_first(html) ==
    LET call     == FieldScraper_extract_between(html, "Stripe.setPublishableKey('", "'")
        document == parse_document(html)
    IN  IF call # <<>> THEN Ok(call[1])
        ELSE IF ScriptKeyFrom(document, 1) # <<>> THEN Ok(ScriptKeyFrom(document, 1)[1])
        ELSE IF DataKeyFrom(document, 1) # <<>> THEN Ok(DataKeyFrom(document, 1)[1])
        ELSE Err(KeyNotFound)

\* FieldScraper::extract_stripe_key
extract_stripe_key(html) ==
    LET call     == FieldScraper_extract_between(html, "Stripe.setPublishableKey('", "'")
        document == parse_document(html)
    IN  IF call # <<>> THEN Ok(call[1])
        ELSE IF DataKeyFrom(document, 1) # <<>> THEN Ok(DataKeyFrom(document, 1)[1])
        ELSE IF ScriptKeyFrom(document, 1) # <<>> THEN Ok(ScriptKeyFrom(document, 1)[1])
        ELSE Err(KeyNotFound)

(***************************************************************************)
(* The pages searched for a key: up to MaxParts parts.  A part records its *)
(* markup and what each stage can take from it: the argument of the call,  *)
(* the selectors of the list that match its element with the attribute     *)
(* value the stage reads, and the key an inline script holds.              *)
(***************************************************************************)
MaxParts == 2

KeyPart(markup, call, selected, value, script) ==
    [markup |-> markup, call |-> call, selected |-> selected, value |-> value,
     script |-> script]

KeyParts ==
    { KeyPart("<script>Stripe.setPublishableKey('pk_test_ABC');</script>",
              <<"pk_test_ABC">>, {}, <<>>, <<"pk_test_ABC">>),
      KeyPart("<script>Stripe.setPublishableKey(siteKey);</script>",
              <<>>, {}, <<>>, <<>>),
      KeyPart("<div data-stripe-publishable-key=\"pk_live_DSPK\"></div>",
              <<>>, {1}, <<"pk_live_DSPK">>, <<>>),
      KeyPart("<div data-key=\"pk_test_DKEY\"></div>",
              <<>>, {2}, <<"pk_test_DKEY">>, <<>>),
      KeyPart("<div data-key=\"sitekey\"></div>",
              <<>>, {2}, <<"sitekey">>, <<>>),
      KeyPart("<div class=\"card stripe-publishable-key\" data-key=\"pk_live_CLS\"></div>",
              <<>>, {2, 3}, <<"pk_live_CLS">>, <<>>),
      KeyPart("<div class=\"stripe-publishable-key\">pk_live_SHOWN</div>",
              <<>>, {3}, <<>>, <<>>),
      KeyPart("<div data-stripe-publishable-key=\"unset\" data-key=\"pk_test_BOTH\"></div>",
              <<>>, {1, 2}, <<"unset">>, <<>>),
      KeyPart("<script>var keys = [\"pk_test_T1\", \"pk_live_L1\"];</script>",
              <<>>, {}, <<>>, <<"pk_live_L1">>),
      KeyPart("<script>var key = \"pk_test_T2x9\";</script>",
              <<>>, {}, <<>>, <<"pk_test_T2x9">>),
      KeyPart("<p>pk_live_TEXT</p>", <<>>, {}, <<>>, <<>>) }

KeyPages == UNION {[1..m -> KeyParts] : m \in 0..MaxParts}

RECURSIVE RenderKeyPage(_)
RenderKeyPage(parts) ==
    IF parts = <<>> THEN "" ELSE Head(parts).markup \o RenderKeyPage(Tail(parts))

\* The publishable key is looked for in a page.
ExtractStripeKey ==
    /\ pc = "idle"
    /\ \E p \in KeyPages :
           /\ input' = <<[parts |-> p]>>
           /\ text' = RenderKeyPage(p)
           /\ result' = <<extract_stripe_key(RenderKeyPage(p))>>
    /\ op' = "extract_stripe_key"
    /\ pc' = "scraped"
    /\ UNCHANGED <<registry, calls>>
    /\ UNCHANGED probe

ScraperNext ==
    \/ ExtractWcNonce
    \/ ExtractMultipleNonces
    \/ ExtractHiddenFields
    \/ ExtractStripeKey

ScraperSpec == Init /\ [][ScraperNext]_vars

(***************************************************************************)
(* Claims about the field scraper (ScraperSpec).                           *)
(***************************************************************************)
NonceReaders == {"extract_wc_nonce", "extract_multiple_nonces", "extract_hidden_fields"}

\* The input elements of a page in document order
PageFields(p) == p.inside \o p.outside

NoHiddenInputs(p) ==
    \A i \in DOMAIN PageFields(p) : PageFields(p)[i].type # <<"hidden">>

\* The value attribute of the first input element with that name, whatever
\* its type; <<>> when there is no such element or it has no value
NonceOf(p, n) ==
    LET fs    == PageFields(p)
        named == {i \in DOMAIN fs : fs[i].name = <<n>>}
    IN  IF named = {} THEN <<>> ELSE fs[Least(named)].value

\* The input elements extract_hidden_fields looks at
ScopeOf(p, form_id) ==
    IF form_id = <<>> THEN PageFields(p)
    ELSE IF form_id = <<"checkout">> THEN p.inside
    ELSE <<>>

\* The hidden inputs with a name and a value, the last one of a name kept
Collected(fs) ==
    LET full == {i \in DOMAIN fs : /\ fs[i].type = <<"hidden">>
                                   /\ fs[i].name # <<>>
                                   /\ fs[i].value # <<>>}
        last == {i \in full : \A j \in full : j > i => fs[j].name # fs[i].name}
    IN  {<<fs[i].name[1], fs[i].value[1]>> : i \in last}

\* The requested names for which extract_wc_nonce succeeds, each with the
\* value it returns
Succeeding(html, nonce_names) ==
    {<<nonce_names[i], extract_wc_nonce(html, nonce_names[i]).v>> :
        i \in {i \in DOMAIN nonce_names : extract_wc_nonce(html, nonce_names[i]).ok}}

\* C22 as stated: on HTML that contains no hidden inputs,
\* extract_hidden_fields returns an empty mapping while extract_wc_nonce
\* fails with the not-found error for any nonce name; and
\* extract_multiple_nonces returns exactly the requested names for which
\* extract_wc_nonce succeeds.
C22_NoHiddenInputsNoNonce ==
    (pc = "scraped" /\ op \in NonceReaders) =>
        /\ (op = "extract_hidden_fields" /\ NoHiddenInputs(input[1].page)) =>
               result[1] = {}
        /\ (op = "extract_wc_nonce" /\ NoHiddenInputs(input[1].page)) =>
               result[1] = Err(NonceNotFound(input[1].nonce_name))
        /\ op = "extract_multiple_nonces" =>
               result[1] = Succeeding(text, input[1].nonce_names)

\* C22, amended: extract_hidden_fields returns the hidden inputs in its
\* scope that have a name and a value, so an empty mapping on HTML that
\* contains no hidden inputs; extract_wc_nonce reads the first input element
\* with the name whatever its type, and fails with the not-found error
\* exactly when there is no such element or it has no value attribute, a
\* name holding a quotation mark failing with the invalid-selector error
\* instead; extract_multiple_nonces returns exactly the requested names for
\* which extract_wc_nonce succeeds.
C22_NonceIsReadFromAnyInput ==
    (pc = "scraped" /\ op \in NonceReaders) =>
        /\ op = "extract_hidden_fields" =>
               /\ result[1] = Collected(ScopeOf(input[1].page, input[1].form_id))
               /\ NoHiddenInputs(input[1].page) => result[1] = {}
        /\ op = "extract_wc_nonce" =>
               result[1] =
                   IF ~QuotesCleanly(input[1].nonce_name) THEN Err("Invalid selector")
                   ELSE IF NonceOf(input[1].page, input[1].nonce_name) # <<>>
                   THEN Ok(NonceOf(input[1].page, input[1].nonce_name)[1])
                   ELSE Err(NonceNotFound(input[1].nonce_name))
        /\ op = "extract_multiple_nonces" =>
               /\ result[1] = Succeeding(text, input[1].nonce_names)
               /\ result[1] =
                      {<<n, NonceOf(input[1].page, n)[1]>> :
                          n \in {input[1].nonce_names[i] : i \in
                                   {i \in DOMAIN input[1].nonce_names :
                                       /\ QuotesCleanly(input[1].nonce_names[i])
                                       /\ NonceOf(input[1].page,
                                                  input[1].nonce_names[i]) # <<>>}}}

\* A nonce read from a text input on a page without hidden inputs
C22_WitnessNonceInTextInput ==
    /\ pc = "scraped"
    /\ op = "extract_wc_nonce"
    /\ NoHiddenInputs(input[1].page)
    /\ text = "<form id=\"checkout\"><input type=\"text\" name=\"nonce_a\" value=\"typed\" /></form>"
    /\ input[1].nonce_name = "nonce_a"
    /\ result[1] = Ok("typed")

\* What each stage takes from the parts of a page, <<>> for a miss
CallStage(parts) ==
    LET hits == {i \in DOMAIN parts : parts[i].call # <<>>}
    IN  IF hits = {} THEN <<>> ELSE parts[Least(hits)].call

\* One selector: the value read from the first element it matches, when
\* that value starts with pk_
SelectorYield(parts, s) ==
    LET hits == {i \in DOMAIN parts : s \in parts[i].selected}
    IN  IF hits = {} THEN <<>>
        ELSE LET v == parts[Least(hits)].value
             IN  IF v # <<>> /\ starts_with(v[1], "pk_") THEN v ELSE <<>>

AttributeStage(parts) ==
    LET hits == {s \in 1..3 : SelectorYield(parts, s) # <<>>}
    IN  IF hits = {} THEN <<>> ELSE SelectorYield(parts, Least(hits))

ScriptStage(parts) ==
    LET hits == {i \in DOMAIN parts : parts[i].script # <<>>}
    IN  IF hits = {} THEN <<>> ELSE parts[Least(hits)].script

MaxProbes == 2

Probes == 1..MaxProbes

\* The gateways the builder registers, in this order
ProbeGateways ==
    << [name |-> "Stripe", site |-> "shop.example.com"],
       [name |-> "Stripe", site |-> "give.example.org"] >>

\* register(&mut self) allowed while probes hold the shared borrow
register_unguarded == TRUE

\* register(&mut self): the exclusive borrow ends before the registry is
\* shared with the probes
register_exclusive == pc = "idle"

ProbeCardLines == {"4111111111111111|12|2025|123", "4111|13|25|1"}

ProbePage == "<input type=\"hidden\" name=\"woocommerce-register-nonce\" value=\"abc123\" />"

ProbeNonceNames == {"woocommerce-register-nonce", "woocommerce-login-nonce"}

ProbeResponses ==
    { <<"parse_stripe_error",
        "{\"error\": {\"message\": \"Your card was declined.\", \"code\": \"card_declined\"}}">>,
      <<"parse_woocommerce_response", "{\"result\": \"success\"}">> }

ProbeLookups == {"Stripe", "Nonexistent"}

Call(name, args) == [op |-> name, args |-> args]

\* The call run alone: a function of its own arguments and, for get, of
\* the registry as built
RunAlone(call, gateways) ==
    CASE call.op = "from_string" -> from_string(call.args[1])
      [] call.op = "extract_wc_nonce" -> extract_wc_nonce(call.args[1], call.args[2])
      [] call.op = "parse_stripe_error" -> parse_stripe_error(call.args[1])
      [] call.op = "parse_woocommerce_response" ->
             parse_woocommerce_response(call.args[1])
      [] call.op = "get" -> GatewayRegistry_get(gateways, call.args[1])

\* The builder registers the next gateway.
BuildRegistry ==
    /\ register_exclusive
    /\ Len(registry) < Len(ProbeGateways)
    /\ registry' = GatewayRegistry_register(registry, ProbeGateways[Len(registry) + 1])
    /\ UNCHANGED <<pc, op, text, input, result, calls>>
    /\ UNCHANGED probe

\* The registry is shared and the probes start.
StartProbes ==
    /\ pc = "idle"
    /\ pc' = "probing"
    /\ op' = "probe"
    /\ input' = [p \in Probes |-> Call("none", <<>>)]
    /\ result' = [p \in Probes |-> <<>>]
    /\ calls' = [p \in Probes |-> 0]
    /\ UNCHANGED <<text, registry>>
    /\ UNCHANGED probe

\* Probe p makes the call: only its own entries change.
Makes(p, step, call) ==
    /\ pc = "probing"
    /\ calls[p] = step
    /\ input' = [input EXCEPT ![p] = call]
    /\ result' = [result EXCEPT ![p] = RunAlone(call, registry)]
    /\ calls' = [calls EXCEPT ![p] = step + 1]
    /\ UNCHANGED <<pc, op, text, registry>>
    /\ UNCHANGED probe

ProbeParsesCard ==
    \E p \in Probes, line \in ProbeCardLines :
        Makes(p, 0, Call("from_string", <<line>>))

ProbeScrapesNonce ==
    \E p \in Probes, name \in ProbeNonceNames :
        Makes(p, 1, Call("extract_wc_nonce", <<ProbePage, name>>))

ProbeClassifies ==
    \E p \in Probes, r \in ProbeResponses :
        Makes(p, 2, Call(r[1], <<r[2]>>))

ProbeReadsRegistry ==
    \E p \in Probes, name \in ProbeLookups :
        Makes(p, 3, Call("get", <<name>>))

ProbeNext ==
    \/ BuildRegistry
    \/ StartProbes
    \/ ProbeParsesCard
    \/ ProbeScrapesNonce
    \/ ProbeClassifies
    \/ ProbeReadsRegistry

ProbeSpec == Init /\ [][ProbeNext]_vars

(***************************************************************************)
(* Claims about concurrent probes (ProbeSpec).                             *)
(***************************************************************************)
Called(p) == pc = "probing" /\ calls[p] > 0

\* Every call a probe has made returned what the call returns run alone
ResultsOfOwnArguments ==
    \A p \in Probes : Called(p) => result[p] = RunAlone(input[p], registry)

\* Two probes that made the same call hold the same result
SameCallSameResult ==
    \A p, q \in Probes :
        (Called(p) /\ Called(q) /\ input[p] = input[q]) => result[p] = result[q]

\* A step of the probing phase is the step of one probe: the registry and
\* the entries of every other probe stay as they are
OneProbeSteps ==
    (pc = "probing" /\ pc' = "probing") =>
        /\ registry' = registry
        /\ \E p \in Probes :
               \A q \in Probes \ {p} :
                   /\ input'[q] = input[q]
                   /\ result'[q] = result[q]
                   /\ calls'[q] = calls[q]

StripeStatuses == {"CcnLive", "InsufficientFunds", "ThreeDsRequired", "Declined", "Error"}

\* The branch of parse_givewp_response that hands data.error_message to the
\* Stripe cascade
DelegatesToStripe(o, p) == o = "parse_givewp_response" /\ p.shape = "error_message"

\* The explicit success rule of the classifier applies to the payload:
\* result "success" or a thank-you page for WooCommerce, the
\* successfully-added notice for Braintree, success true for GiveWP
SuccessRule(o, p) ==
    \/ /\ o = "parse_woocommerce_response"
       /\ \/ p.shape = "json_success"
          \/ p.shape \in {"json_no_messages", "text", "html_notice"}
             /\ Says(p, ThankYouPhrases)
    \/ o = "parse_braintree_response" /\ p.shape = "added"
    \/ o = "parse_givewp_response" /\ p.shape = "success_true"

\* C25: no classifier returns the status Unknown; parse_stripe_error, and
\* the error-message branch of parse_givewp_response that delegates to the
\* Stripe cascade, return a status among CcnLive, InsufficientFunds,
\* ThreeDsRequired, Declined and Error, never Charged; Charged comes only
\* from the explicit success rules of the WooCommerce, Braintree and GiveWP
\* classifiers.
C25_NoUnknownAndChargedOnlyOnSuccess ==
    (Classified /\ op \in Classifiers) =>
        /\ response[1].status # "Unknown"
        /\ response[1].status \in PaymentStatus
        /\ (op = "parse_stripe_error" \/ DelegatesToStripe(op, payload)) =>
               response[1].status \in StripeStatuses
        /\ response[1].status = "Charged" =>
               /\ op \in Classifiers \ {"parse_stripe_error"}
               /\ SuccessRule(op, payload)

\* The delegating branch of GiveWP with a thank-you message: the Stripe
\* cascade has no success rule, and its default is Error
C25_WitnessDelegatedThankYou ==
    /\ Classified
    /\ op = "parse_givewp_response"
    /\ DelegatesToStripe(op, payload)
    /\ payload.phrases # {}
    /\ \A i \in payload.phrases : Phrases[i] \in ThankYouPhrases
    /\ response[1].status = "Error"

(***************************************************************************)
(* PaymentResponse's fluent setters (models/response.rs).  A driver builds *)
(* a response and attaches the optional fields; input keeps the response   *)
(* as new() returned it and calls lists the setters applied since, each    *)
(* <<setter, argument>>.  Times are whole seconds.                         *)
(***************************************************************************)

\* with_redirect that also forgets the raw response
with_redirect_dropping_raw(self, url) ==
    [self EXCEPT !.redirect_url = <<url>>, !.raw_response = <<>>]

\* PaymentResponse::with_redirect
with_redirect(self, url) == [self EXCEPT !.redirect_url = <<url>>]

\* PaymentResponse::with_raw
with_raw(self, raw) == [self EXCEPT !.raw_response = <<raw>>]

\* PaymentResponse::with_time
with_time(self, time) == [self EXCEPT !.execution_time = time]

MaxSetters == 3

RedirectUrls == {"https://hooks.stripe.com/3d_secure", "https://shop.example.com/verify"}
RawSnippets  == {"{\"error\": {}}", "<html>"}
Times        == {0, 2}
NewMessages  == {"", "Gateway timed out"}

\* A driver builds a response.
NewResponse ==
    /\ pc = "idle"
    /\ \E st \in PaymentStatus, m \in NewMessages :
           /\ response' = <<new(st, m)>>
           /\ input' = <<new(st, m)>>
    /\ op' = "new"
    /\ pc' = "built"
    /\ calls' = <<>>
    /\ UNCHANGED <<text, payload, notified, result, registry>>

WithRedirect ==
    /\ pc = "built"
    /\ Len(calls) < MaxSetters
    /\ \E url \in RedirectUrls :
           /\ response' = <<with_redirect(response[1], url)>>
           /\ calls' = Append(calls, <<"with_redirect", url>>)
    /\ op' = "with_redirect"
    /\ UNCHANGED <<pc, text, payload, notified, input, result, registry>>

WithRaw ==
    /\ pc = "built"
    /\ Len(calls) < MaxSetters
    /\ \E raw \in RawSnippets :
           /\ response' = <<with_raw(response[1], raw)>>
           /\ calls' = Append(calls, <<"with_raw", raw>>)
    /\ op' = "with_raw"
    /\ UNCHANGED <<pc, text, payload, notified, input, result, registry>>

WithTime ==
    /\ pc = "built"
    /\ Len(calls) < MaxSetters
    /\ \E time \in Times :
           /\ response' = <<with_time(response[1], time)>>
           /\ calls' = Append(calls, <<"with_time", time>>)
    /\ op' = "with_time"
    /\ UNCHANGED <<pc, text, payload, notified, input, result, registry>>

BuilderNext ==
    \/ NewResponse
    \/ WithRedirect
    \/ WithRaw
    \/ WithTime

BuilderSpec == Init /\ [][BuilderNext]_vars

(***************************************************************************)
(* Claims about the setters (BuilderSpec).                                 *)
(***************************************************************************)
\* The argument of the last call of the setter, <<>> when it was not called
LastSet(setter) ==
    LET made == {i \in 1..Len(calls) : calls[i][1] = setter}
    IN  IF made = {} THEN <<>>
        ELSE <<calls[CHOOSE i \in made : \A j \in made : j <= i][2]>>

\* A response as new() returns it
FreshResponse ==
    (pc = "built" /\ calls = <<>>) =>
        /\ response[1].redirect_url = <<>>
        /\ response[1].raw_response = <<>>
        /\ response[1].execution_time = 0

\* Whatever setters were applied, status and message are those new() was
\* given and each optional field holds what its own setter last put there
SettersKeepTheVerdict ==
    pc = "built" =>
        /\ response[1].status = input[1].status
        /\ response[1].message = input[1].message
        /\ should_notify(response[1].status) = should_notify(input[1].status)
        /\ response[1].redirect_url = LastSet("with_redirect")
        /\ response[1].raw_response = LastSet("with_raw")
        /\ response[1].execution_time = unwrap_or(LastSet("with_time"), 0)

\* Setters on different fields applied to the response in either order
\* give the same response
SettersCommute ==
    pc = "built" =>
        \A url \in RedirectUrls, raw \in RawSnippets, time \in Times :
            LET r == response[1] IN
            /\ with_raw(with_redirect(r, url), raw) = with_redirect(with_raw(r, raw), url)
            /\ with_time(with_redirect(r, url), time) = with_redirect(with_time(r, time), url)
            /\ with_time(with_raw(r, raw), time) = with_raw(with_time(r, time), raw)

\* A setter's step changes its own field only
SetterChangesOwnField ==
    (pc = "built" /\ pc' = "built") =>
        /\ response'[1].status = response[1].status
        /\ response'[1].message = response[1].message
        /\ op' # "with_redirect" => response'[1].redirect_url = response[1].redirect_url
        /\ op' # "with_raw" => response'[1].raw_response = response[1].raw_response
        /\ op' # "with_time" => response'[1].execution_time = response[1].execution_time
        /\ op' = "with_redirect" => response'[1].redirect_url = <<calls'[Len(calls')][2]>>
        /\ op' = "with_raw" => response'[1].raw_response = <<calls'[Len(calls')][2]>>
        /\ op' = "with_time" => response'[1].execution_time = calls'[Len(calls')][2]

\* C26: a new PaymentResponse has no redirect_url, no raw_response and
\* execution_time 0; with_redirect, with_raw and with_time each change
\* their own field only, so no sequence of setters changes status, message
\* or should_notify, and setters on different fields commute.
C26_SettersTouchOnlyTheirField ==
    /\ [](FreshResponse /\ SettersKeepTheVerdict /\ SettersCommute)
    /\ [][SetterChangesOwnField]_vars

\* All three setters applied, the time first and the redirect last
C26_WitnessAllThreeSet ==
    /\ pc = "built"
    /\ Len(calls) = 3
    /\ calls[1][1] = "with_time"
    /\ calls[2][1] = "with_raw"
    /\ calls[3][1] = "with_redirect"
    /\ input[1].status = "ThreeDsRequired"
    /\ response[1].status = "ThreeDsRequired"
    /\ response[1].redirect_url # <<>>
    /\ response[1].raw_response # <<>>
    /\ response[1].execution_time = 2

=============================================================================
